---------------------------- MODULE Spec2Model ----------------------------
(***************************************************************************)
(* A model of cogutil's concurrency core:                                  *)
(*   - the cancelable, watermarked concurrent containers                   *)
(*     (concurrent_queue, concurrent_stack, concurrent_set), and           *)
(*   - the asynchronous dispatch engine async_caller built on the queue.   *)
(*                                                                         *)
(* Every critical section that runs under a container's mutex is one       *)
(* atomic step; what the code does after unlocking (the notify calls) is   *)
(* a step of its own.  A thread waiting on a condition variable sits in a  *)
(* "..._wait" position until it is notified or wakes spuriously; it then   *)
(* re-acquires the mutex and re-evaluates its loop condition.              *)
(***************************************************************************)
EXTENDS Integers, Sequences, FiniteSets, TLC

(***************************************************************************)
(* Bounds of the model.                                                    *)
(***************************************************************************)
\* number of push/insert calls the clients make, per workload
MaxPushOrder == 5
MaxPushCancel == 2
MaxPushWatermark == 6
MaxPushClose == 4
MaxPushDedup == 4
MaxPushObserve == 2
MaxPushTakeAll == 4
MaxPushBarrier == 3
MaxPushSetOrder == 4
MaxPushBulk == 4
MaxPushBatch == 4
\* the largest count given to try_get(nelt, reverse)
MaxBatch == 3
\* the set container is fed values 1..MaxVal
MaxVal == 2
\* number of enqueue() calls made on the engine
MaxEnqueue == 3
\* number of barrier() calls made on the engine
MaxBarrier == 2

(***************************************************************************)
(* Program constants.                                                      *)
(***************************************************************************)
\* INT32_MAX
DEFAULT_HIGH_WATER_MARK == 2147483647
\* INT32_MAX - 65536
DEFAULT_LOW_WATER_MARK == 2147418111
\* the engine's DEFAULT_HIGH_WATER_MARK and DEFAULT_LOW_WATER_MARK
ENGINE_HIGH_WATER_MARK == 100
ENGINE_LOW_WATER_MARK == 10

VARIABLES
    \* ---- the container under test -------------------------------------
    kind,          \* "queue", "stack" or "set": which class this is
    items,         \* the_queue / the_stack / the_set, as a sequence
    is_canceled,   \* is_canceled
    high,          \* _high_watermark
    low,           \* _low_watermark
    blocked,       \* _blocked_pushers / _blocked_inserters
    cpc,           \* position of each client thread inside its call
    carg,          \* the element a blocked push/insert call carries
    cflag,         \* the local should_cascade of a push that has unlocked
    last,          \* the call that completed last, and how it ended
    work,          \* the workload the clients run: which calls they make
    cmark,         \* history: thread was waiting in pop/get when cancel() hit
    npush,         \* history: number of push/insert calls that were let in
    pushed,        \* history: the elements pushed, in order of effect
    popped,        \* history: the elements removed, in order of removal
    \* ---- the engine (async_caller, async_buffer) -----------------------
    ekind,            \* "caller" or "buffer": which class the engine is
    store_queue,      \* _store_queue / _store_set, in removal order
    store_canceled,   \* is_canceled of _store_queue / _store_set
    write_threads,    \* _write_threads, in the order the threads were started
    thread_count,     \* _thread_count
    enqueue_mutex,    \* _enqueue_mutex: the thread that holds it, or "none"
    busy_writers,     \* _busy_writers
    pending,          \* _pending
    high_watermark,   \* _high_watermark
    low_watermark,    \* _low_watermark
    stopping_writers, \* _stopping_writers
    stall_writers,    \* async_buffer::_stall_writers
    in_drain,         \* _in_drain
    item_count,       \* _item_count
    duplicate_count,  \* async_buffer::_duplicate_count
    flush_count,      \* _flush_count
    drain_count,      \* _drain_count
    drain_concurrent, \* _drain_concurrent
    epc,              \* position of each thread inside the engine's code
    earg,             \* the element of the enqueue() call a thread is in
    elt,              \* write_loop's local elt: the element a worker handles
    save_stall,       \* the local save_stall of drain() / flush(), per thread
    terminated,       \* std::terminate was called: the process is gone
    ework,            \* the scenario the engine's clients run
    nenqueue,         \* history: number of enqueue() calls begun
    nbarrier,         \* history: number of barrier() calls begun
    handled,          \* history: handler invocations begun, per element
    accepted,         \* history: per element, the enqueue() / insert() calls
                      \* that stored it or handled it synchronously
    completed,        \* history: elements whose handler invocation returned
    returned,         \* history: elements whose enqueue() returned normally
    snapshot,         \* history: per barrier() caller, returned at its call
    stall_set         \* history: the value last given to stall(bool)

cvars == <<kind, items, is_canceled, high, low, blocked, cpc, carg,
           cflag, last, work, cmark, npush, pushed, popped>>

evars == <<store_queue, store_canceled, write_threads, thread_count,
           enqueue_mutex, busy_writers, pending, high_watermark,
           low_watermark, stopping_writers, stall_writers, in_drain,
           item_count, duplicate_count, flush_count, drain_count,
           drain_concurrent, epc, earg, elt, save_stall, terminated, ekind,
           ework, nenqueue, nbarrier, handled, accepted, completed,
           returned, snapshot, stall_set>>

vars == <<cvars, evars>>

CThreads == {"t1", "t2", "t3"}
Kinds == {"queue", "stack", "set"}

(***************************************************************************)
(* Sequence helpers.                                                       *)
(***************************************************************************)
Last(s) == s[Len(s)]
RemoveAt(s, i) == SubSeq(s, 1, i - 1) \o SubSeq(s, i + 1, Len(s))
Range(s) == {s[i] : i \in 1..Len(s)}

(***************************************************************************)
(* The containers' data operations.                                        *)
(***************************************************************************)
\* std::set<Element>::insert on the sorted sequence that stands for the set
SetInsertMulti(s, v) ==
    SelectSeq(s, LAMBDA x : x <= v) \o <<v>> \o SelectSeq(s, LAMBDA x : x > v)
SetInsert(s, v) ==
    IF v \in Range(s) THEN s
    ELSE LET less == SelectSeq(s, LAMBDA x : x < v)
             more == SelectSeq(s, LAMBDA x : x > v)
         IN  less \o <<v>> \o more

\* do_push() / do_insert(): the_queue.push, the_stack.push, the_set.insert
DoInsertAtFront(k, s, v) ==
    IF k = "set" THEN SetInsert(s, v) ELSE <<v>> \o s
DoInsert(k, s, v) ==
    IF k = "set" THEN SetInsert(s, v) ELSE Append(s, v)

\* the position of the element the next removal takes: the_queue.front(),
\* the_stack.top(), the_set.cbegin() (crbegin() with the reverse flag)
NextIndexBack(k, s, rev) == Len(s)
NextIndexFront(k, s, rev) == 1
NextIndex(k, s, rev) ==
    IF k = "queue" THEN 1
    ELSE IF k = "stack" THEN Len(s)
    ELSE IF rev THEN Len(s) ELSE 1

\* should_notify of COMMON_POP_NOTIFY / COMMON_WATERMARK_NOTIFY, computed
\* on the container as the removal left it
ShouldNotifyNever(nblocked, s, lo) == FALSE
ShouldNotifyUncounted(nblocked, s, lo) == Len(s) < lo
ShouldNotifyAtLow(nblocked, s, lo) == nblocked > 0 /\ Len(s) <= lo
ShouldNotify(nblocked, s, lo) == nblocked > 0 /\ Len(s) < lo

\* should_cascade of push_impl / insert_impl
ShouldCascade(was_blocked, nblocked) == was_blocked /\ nblocked > 0

\* the loop condition of the watermark wait in push_impl / insert_impl
MustBlockNever(s, hi) == FALSE
MustBlock(s, hi) == Len(s) >= hi

\* the elements the clients push: the queue and the stack get the elements
\* 1, 2, 3, ... numbered in call order, the set gets values that repeat
\* (in the "dedup" workload the values 1, 3 and 5; in the "bulk" workload
\* 1, 3, 5 in this order and then 1 again)
DedupValues == {1, 3, 5}
PushValues(k, n) ==
    IF k # "set" THEN {n + 1}
    ELSE IF work \in {"dedup", "setorder", "batch"} THEN DedupValues
    ELSE IF work = "bulk" THEN {IF n < 3 THEN 2 * n + 1 ELSE 1}
    ELSE 1..MaxVal

\* the reverse flag of try_get exists on the set only
RevChoices(k) == IF k = "set" THEN BOOLEAN ELSE {FALSE}

\* the (high, low) pairs given to set_watermarks
WatermarkChoices == {<<3, 1>>}

\* The clients' workloads.  "order": two threads push and remove.
\* "cancel": three threads push, remove, cancel and reset.  "watermark":
\* the watermarks are set, then three threads push and remove.  "close":
\* the watermarks are set, then three threads push, remove and cancel.
\* "dedup": two threads push and remove; the set gets the values 1, 3, 5.
\* Three more workloads run under specifications of their own: "observe"
\* (push, remove, cancel, size, is_empty), "takeall" (push, try_get,
\* wait_and_take_all, cancel), "barrier" (push, pop, barrier) and
\* "setorder" (the set alone: insert, get and try_get from the front);
\* "bulk" (the watermarks are set, then two threads push, take
\* everything, clear or erase on the set, and cancel); "batch" (the set
\* alone: two threads insert and call both forms of try_get with either
\* value of the reverse flag).
Workloads == {"order", "cancel", "watermark", "close", "dedup"}

Calls(w) ==
    IF w \in {"order", "dedup"} THEN {"push", "pop", "try_get"}
    ELSE IF w = "cancel" THEN {"push", "pop", "try_get", "cancel", "reset"}
    ELSE IF w = "watermark" THEN {"set_watermarks", "push", "try_get"}
    ELSE IF w = "observe"
         THEN {"push", "pop", "try_get", "cancel", "size", "is_empty"}
    ELSE IF w = "takeall" THEN {"push", "try_get", "take_all", "cancel"}
    ELSE IF w = "barrier" THEN {"push", "pop", "barrier"}
    ELSE IF w = "setorder" THEN {"push", "pop", "try_get"}
    ELSE IF w = "bulk"
         THEN {"set_watermarks", "push", "take_all", "clear", "erase", "cancel"}
    ELSE IF w = "batch" THEN {"push", "try_get", "try_get_n"}
    ELSE {"set_watermarks", "push", "try_get", "cancel"}

Clients(w) == IF w \in {"order", "dedup", "bulk", "batch"} THEN {"t1", "t2"} ELSE CThreads

MaxPush(w) ==
    IF w = "order" THEN MaxPushOrder
    ELSE IF w = "dedup" THEN MaxPushDedup
    ELSE IF w = "cancel" THEN MaxPushCancel
    ELSE IF w = "watermark" THEN MaxPushWatermark
    ELSE IF w = "observe" THEN MaxPushObserve
    ELSE IF w = "takeall" THEN MaxPushTakeAll
    ELSE IF w = "barrier" THEN MaxPushBarrier
    ELSE IF w = "setorder" THEN MaxPushSetOrder
    ELSE IF w = "bulk" THEN MaxPushBulk
    ELSE IF w = "batch" THEN MaxPushBatch
    ELSE MaxPushClose

\* thread t may begin the call op now
MayCall(t, op) ==
    /\ cpc[t] = "idle"
    /\ t \in Clients(work)
    /\ op \in Calls(work)
    /\ ("set_watermarks" \in Calls(work) /\ op # "set_watermarks")
          => high # DEFAULT_HIGH_WATER_MARK

NoCall == [op |-> "none", st |-> "none"]
Done(op, st) == [op |-> op, st |-> st]

PopWaiting == {"pop_wait", "pop_ready", "pop_spur"}
PushWaiting == {"push_wait", "push_ready", "push_spur"}

\* condition_variable::notify_all: every waiter is made ready
NotifyAll(pcs, from, to) ==
    [t \in CThreads |-> IF pcs[t] = from THEN to ELSE pcs[t]]

\* condition_variable::notify_one: the outcomes, one per waiter that may be
\* the one woken (no waiter: nothing happens)
NotifyOne(pcs, from, to) ==
    IF \A t \in CThreads : pcs[t] # from THEN {pcs}
    ELSE {[pcs EXCEPT ![t] = to] : t \in {u \in CThreads : pcs[u] = from}}

\* the states of a thread waiting in the_cond.wait: in pop/get, in
\* wait_and_take_all and in barrier; Woken(pc) is where a notification
\* of the_cond puts a thread that is at pc
TheCondWaiting == {"pop_wait", "take_wait", "bar_wait"}
Woken(pc) ==
    IF pc = "pop_wait" THEN "pop_ready"
    ELSE IF pc = "take_wait" THEN "take_ready"
    ELSE IF pc = "bar_wait" THEN "bar_ready"
    ELSE pc

\* the_cond.notify_one(): one outcome per thread waiting on the_cond
TheCondNotifyOne(pcs) ==
    IF \A t \in CThreads : pcs[t] \notin TheCondWaiting THEN {pcs}
    ELSE {[pcs EXCEPT ![t] = Woken(pcs[t])] :
             t \in {u \in CThreads : pcs[u] \in TheCondWaiting}}

\* the_cond.notify_all()
TheCondNotifyAll(pcs) == [t \in CThreads |-> Woken(pcs[t])]

\* the watermark notification a pusher that had blocked sends after its
\* push: notify_one in the queue, notify_all in the stack and the set
CascadeNotify(k, pcs) ==
    IF k = "queue" THEN NotifyOne(pcs, "push_wait", "push_ready")
    ELSE {NotifyAll(pcs, "push_wait", "push_ready")}

(***************************************************************************)
(* The engine's threads and elements.                                      *)
(***************************************************************************)
\* the threads the constructor may start, in the order it starts them
WorkerOrder == <<"w1", "w2">>
Workers == Range(WorkerOrder)
\* the threads that call enqueue() and barrier() from outside
Producers == {"p1", "p2"}
\* the thread that destroys the engine
Owner == "main"
EThreads == Workers \cup Producers \cup {Owner}
\* the elements handed to enqueue(): the k-th call carries element k
Elements == 1..MaxEnqueue

\* a run that studies a container on its own has no engine
NoEngine ==
    /\ store_queue = <<>>
    /\ store_canceled = FALSE
    /\ write_threads = <<>>
    /\ thread_count = 0
    /\ enqueue_mutex = "none"
    /\ busy_writers = 0
    /\ pending = 0
    /\ high_watermark = 0
    /\ low_watermark = 0
    /\ stopping_writers = FALSE
    /\ stall_writers = FALSE
    /\ in_drain = FALSE
    /\ item_count = 0
    /\ duplicate_count = 0
    /\ flush_count = 0
    /\ drain_count = 0
    /\ drain_concurrent = 0
    /\ epc = [t \in EThreads |-> "none"]
    /\ earg = [t \in EThreads |-> 0]
    /\ elt = [t \in Workers |-> 0]
    /\ save_stall = [t \in EThreads |-> FALSE]
    /\ terminated = FALSE
    /\ ekind = "none"
    /\ ework = "none"
    /\ nenqueue = 0
    /\ nbarrier = 0
    /\ handled = [e \in Elements |-> 0]
    /\ accepted = [e \in Elements |-> 0]
    /\ completed = {}
    /\ returned = {}
    /\ snapshot = [t \in Producers |-> {}]
    /\ stall_set = FALSE

(***************************************************************************)
(* The container's initial state: the constructor.                         *)
(***************************************************************************)
CInit ==
    /\ kind \in Kinds
    /\ work \in Workloads
    /\ items = <<>>
    /\ is_canceled = FALSE
    /\ high = DEFAULT_HIGH_WATER_MARK
    /\ low = DEFAULT_LOW_WATER_MARK
    /\ blocked = 0
    /\ cpc = [t \in CThreads |-> "idle"]
    /\ carg = [t \in CThreads |-> 0]
    /\ cflag = [t \in CThreads |-> FALSE]
    /\ last = NoCall
    /\ cmark = [t \in CThreads |-> "no"]
    /\ npush = 0
    /\ pushed = <<>>
    /\ popped = <<>>
    /\ NoEngine

\* if (is_canceled) throw Canceled(), the first statement of push_impl /
\* insert_impl under the mutex
PushRefusedNever == FALSE
PushRefused == is_canceled

\* a call of thread t ends: op is the call, st how it ended
CReturn(t, op, st) ==
    /\ last' = Done(op, st)
    /\ cmark' = [cmark EXCEPT ![t] = "no"]

\* the pushing part of push_impl, run under the mutex by thread t with
\* was_blocked as given: do_push(), should_cascade, unlock
CDoPush(t, v, was_blocked, nblocked) ==
    /\ items' = DoInsert(kind, items, v)
    /\ pushed' = Append(pushed, v)
    /\ blocked' = nblocked
    /\ cflag' = [cflag EXCEPT ![t] = ShouldCascade(was_blocked, nblocked)]
    /\ carg' = [carg EXCEPT ![t] = 0]
    /\ cpc' = [cpc EXCEPT ![t] = "push_notify"]
    /\ last' = Done("push", IF Len(items') > Len(items) THEN "true" ELSE "false")

\* push(item) / insert(item): the call up to its first unlock or wait
CPush(t, v) ==
    /\ MayCall(t, "push")
    /\ IF PushRefused
       THEN /\ CReturn(t, "push", "Canceled")
            /\ UNCHANGED <<items, pushed, blocked, cflag, cpc, carg, npush>>
       ELSE /\ npush < MaxPush(work)
            /\ npush' = npush + 1
            /\ IF MustBlock(items, high)
               THEN /\ blocked' = blocked + 1
                    /\ cpc' = [cpc EXCEPT ![t] = "push_wait"]
                    /\ carg' = [carg EXCEPT ![t] = v]
                    /\ UNCHANGED <<items, pushed, cflag, last, cmark>>
               ELSE /\ CDoPush(t, v, FALSE, blocked)
                    /\ UNCHANGED cmark
    /\ UNCHANGED <<kind, work, is_canceled, high, low, popped>>

\* if (is_canceled) throw Canceled(), after the watermark wait loop
WaitRefusedNever == FALSE
WaitRefused == is_canceled

\* a pusher woken from _watermark_cond.wait re-evaluates the wait loop
CPushResume(t) ==
    /\ cpc[t] \in {"push_ready", "push_spur"}
    /\ IF MustBlock(items, high) /\ ~is_canceled
       THEN /\ cpc' = [cpc EXCEPT ![t] = "push_wait"]
            /\ UNCHANGED <<items, pushed, blocked, cflag, carg, last, cmark>>
       ELSE IF WaitRefused
       THEN /\ blocked' = blocked - 1
            /\ cpc' = [cpc EXCEPT ![t] = "idle"]
            /\ carg' = [carg EXCEPT ![t] = 0]
            /\ CReturn(t, "push", "Canceled")
            /\ UNCHANGED <<items, pushed, cflag>>
       ELSE /\ CDoPush(t, carg[t], TRUE, blocked - 1)
            /\ UNCHANGED cmark
    /\ UNCHANGED <<kind, work, is_canceled, high, low, npush, popped>>

\* the_cond.notify_one() after the push, then the test of should_cascade
CPushNotify(t) ==
    /\ cpc[t] = "push_notify"
    /\ \E woken \in TheCondNotifyOne(cpc) :
          cpc' = [woken EXCEPT ![t] = IF cflag[t] THEN "push_cascade" ELSE "idle"]
    /\ cflag' = [cflag EXCEPT ![t] = FALSE]
    /\ UNCHANGED <<kind, work, items, is_canceled, high, low, blocked, carg,
                   last, cmark, npush, pushed, popped>>

\* _watermark_cond.notify_one() / notify_all() of a pusher that had blocked
CPushCascade(t) ==
    /\ cpc[t] = "push_cascade"
    /\ \E woken \in CascadeNotify(kind, cpc) :
          cpc' = [woken EXCEPT ![t] = "idle"]
    /\ UNCHANGED <<kind, work, items, is_canceled, high, low, blocked, carg,
                   cflag, last, cmark, npush, pushed, popped>>

\* COMMON_POP_NOTIFY / the erase of get and try_get, under the mutex:
\* take the next element, compute should_notify, unlock
CDoRemove(t, op, rev) ==
    LET i == NextIndex(kind, items, rev)
        rest == RemoveAt(items, i)
    IN  /\ items' = rest
        /\ popped' = Append(popped, items[i])
        /\ cpc' = [cpc EXCEPT ![t] =
                     IF ShouldNotify(blocked, rest, low) THEN "pop_notify" ELSE "idle"]
        /\ CReturn(t, op, "true")

\* COMMON_COND_WAIT({ throw Canceled(); }) followed by the removal: what a
\* thread in pop/get does each time it holds the mutex
CPopBody(t) ==
    IF items = <<>> /\ ~is_canceled
    THEN /\ cpc' = [cpc EXCEPT ![t] = "pop_wait"]
         /\ UNCHANGED <<items, popped, last, cmark>>
    ELSE IF is_canceled
    THEN /\ cpc' = [cpc EXCEPT ![t] = "idle"]
         /\ CReturn(t, "pop", "Canceled")
         /\ UNCHANGED <<items, popped>>
    ELSE CDoRemove(t, "pop", FALSE)

\* pop(value) / get(value): the blocking removal, up to its first wait
CPop(t) ==
    /\ MayCall(t, "pop")
    /\ CPopBody(t)
    /\ UNCHANGED <<kind, work, is_canceled, high, low, blocked, carg, cflag, npush, pushed>>

\* a remover woken from the_cond.wait re-evaluates the wait loops
CPopResume(t) ==
    /\ cpc[t] \in {"pop_ready", "pop_spur"}
    /\ CPopBody(t)
    /\ UNCHANGED <<kind, work, is_canceled, high, low, blocked, carg, cflag, npush, pushed>>

\* try_get(value [, reverse]) / try_pop(value): the non-blocking removal
CTryGet(t, rev) ==
    /\ MayCall(t, "try_get")
    /\ IF items = <<>>
       THEN /\ CReturn(t, "try_get", "false")
            /\ UNCHANGED <<items, popped, cpc>>
       ELSE CDoRemove(t, "try_get", rev)
    /\ UNCHANGED <<kind, work, is_canceled, high, low, blocked, carg, cflag, npush, pushed>>

\* if (should_notify) _watermark_cond.notify_all(), after the unlock
CPopNotify(t) ==
    /\ cpc[t] = "pop_notify"
    /\ cpc' = [NotifyAll(cpc, "push_wait", "push_ready") EXCEPT ![t] = "idle"]
    /\ UNCHANGED <<kind, work, items, is_canceled, high, low, blocked, carg,
                   cflag, last, cmark, npush, pushed, popped>>

\* if (is_canceled) throw Canceled(), the first statement of cancel()
\* under the mutex
CancelRefusedNever == FALSE
CancelRefused == is_canceled

\* cancel(): the part under the mutex
CCancel(t) ==
    /\ MayCall(t, "cancel")
    /\ IF CancelRefused
       THEN /\ last' = Done("cancel", "Canceled")
            /\ UNCHANGED <<is_canceled, cpc, cmark>>
       ELSE /\ is_canceled' = TRUE
            /\ cpc' = [cpc EXCEPT ![t] = "cancel_notify"]
            /\ last' = Done("cancel", "true")
            /\ cmark' = [u \in CThreads |->
                           IF cpc[u] \in PopWaiting /\ items = <<>>
                           THEN "canceled" ELSE cmark[u]]
    /\ UNCHANGED <<kind, work, items, high, low, blocked, carg, cflag, npush,
                   pushed, popped>>

\* the removers cancel() wakes: the_cond.notify_all()
CancelWakesNone(pcs) == pcs
CancelWakes(pcs) == TheCondNotifyAll(pcs)

\* cancel(): the_cond.notify_all()
CCancelNotify(t) ==
    /\ cpc[t] = "cancel_notify"
    /\ cpc' = [CancelWakes(cpc) EXCEPT ![t] = "cancel_notify_wm"]
    /\ UNCHANGED <<kind, work, items, is_canceled, high, low, blocked, carg,
                   cflag, last, cmark, npush, pushed, popped>>

\* cancel(): _watermark_cond.notify_all()
CCancelNotifyWm(t) ==
    /\ cpc[t] = "cancel_notify_wm"
    /\ cpc' = [NotifyAll(cpc, "push_wait", "push_ready") EXCEPT ![t] = "idle"]
    /\ UNCHANGED <<kind, work, items, is_canceled, high, low, blocked, carg,
                   cflag, last, cmark, npush, pushed, popped>>

\* cancel_reset() / open(); the history records whether the container
\* was canceled when the call came
CReset(t) ==
    /\ MayCall(t, "reset")
    /\ is_canceled' = FALSE
    /\ last' = Done("reset", IF is_canceled THEN "reopened" ELSE "true")
    /\ cmark' = [u \in CThreads |->
                   IF cmark[u] = "canceled" THEN "reset" ELSE cmark[u]]
    /\ UNCHANGED <<kind, work, items, high, low, blocked, cpc, carg, cflag,
                   npush, pushed, popped>>

\* set_watermarks(high, low); the clients call it once
CSetWatermarks(t, h, l) ==
    /\ MayCall(t, "set_watermarks")
    /\ high = DEFAULT_HIGH_WATER_MARK
    /\ high' = h
    /\ low' = l
    /\ UNCHANGED <<kind, work, items, is_canceled, blocked, cpc, carg, cflag, last,
                   cmark, npush, pushed, popped>>

\* a spurious wakeup of condition_variable::wait
CSpurious(t) ==
    /\ cpc[t] \in TheCondWaiting \cup {"push_wait"}
    /\ cpc' = [cpc EXCEPT ![t] =
                 IF cpc[t] = "pop_wait" THEN "pop_spur"
                 ELSE IF cpc[t] = "push_wait" THEN "push_spur"
                 ELSE Woken(cpc[t])]
    /\ UNCHANGED <<kind, work, items, is_canceled, high, low, blocked, carg,
                   cflag, last, cmark, npush, pushed, popped>>

\* the steps by which thread t carries on a call it is in
CContinue(t) ==
    \/ CPushResume(t)
    \/ CPushNotify(t)
    \/ CPushCascade(t)
    \/ CPopResume(t)
    \/ CPopNotify(t)
    \/ CCancelNotify(t)
    \/ CCancelNotifyWm(t)

\* the calls thread t may begin
CCall(t) ==
    \/ \E v \in PushValues(kind, npush) : CPush(t, v)
    \/ CPop(t)
    \/ \E rev \in RevChoices(kind) : CTryGet(t, rev)
    \/ CCancel(t)
    \/ CReset(t)
    \/ \E w \in WatermarkChoices : CSetWatermarks(t, w[1], w[2])

CNext ==
    /\ UNCHANGED evars
    /\ \E t \in CThreads : CCall(t) \/ CContinue(t) \/ CSpurious(t)

ContainerSpec == CInit /\ [][CNext]_vars

\* The "cancel" workload on its own, with the scheduling the liveness of
\* a call rests on: a thread that is inside a call is scheduled again;
\* nothing forces a client to begin a call, nor a spurious wakeup.
CancelInit == CInit /\ work = "cancel"

CancelCall(t) ==
    \/ \E v \in PushValues(kind, npush) : CPush(t, v)
    \/ CPop(t)
    \/ \E rev \in RevChoices(kind) : CTryGet(t, rev)
    \/ CCancel(t)
    \/ CReset(t)

CancelContinue(t) ==
    /\ UNCHANGED evars
    /\ \/ CPushNotify(t)
       \/ CPopResume(t)
       \/ CCancelNotify(t)
       \/ CCancelNotifyWm(t)

CancelNext ==
    \E t \in CThreads :
        \/ UNCHANGED evars /\ CancelCall(t)
        \/ CancelContinue(t)
        \/ UNCHANGED evars /\ CSpurious(t)

CancelFairSpec ==
    CancelInit /\ [][CancelNext]_vars
       /\ \A t \in CThreads : WF_vars(CancelContinue(t))

\* The workload "inverted": set_watermarks is given a low watermark above
\* the high one, then three threads push, remove and cancel.
InvertedChoices == {<<2, 3>>}

InvertedInit ==
    /\ kind \in Kinds
    /\ work = "inverted"
    /\ items = <<>>
    /\ is_canceled = FALSE
    /\ high = DEFAULT_HIGH_WATER_MARK
    /\ low = DEFAULT_LOW_WATER_MARK
    /\ blocked = 0
    /\ cpc = [t \in CThreads |-> "idle"]
    /\ carg = [t \in CThreads |-> 0]
    /\ cflag = [t \in CThreads |-> FALSE]
    /\ last = NoCall
    /\ cmark = [t \in CThreads |-> "no"]
    /\ npush = 0
    /\ pushed = <<>>
    /\ popped = <<>>
    /\ NoEngine

InvertedCall(t) ==
    \/ \E v \in PushValues(kind, npush) : CPush(t, v)
    \/ \E rev \in RevChoices(kind) : CTryGet(t, rev)
    \/ CCancel(t)
    \/ \E w \in InvertedChoices : CSetWatermarks(t, w[1], w[2])

InvertedContinue(t) ==
    \/ CPushResume(t)
    \/ CPushNotify(t)
    \/ CPushCascade(t)
    \/ CPopNotify(t)
    \/ CCancelNotify(t)
    \/ CCancelNotifyWm(t)

InvertedNext ==
    /\ UNCHANGED evars
    /\ \E t \in CThreads : InvertedCall(t) \/ InvertedContinue(t) \/ CSpurious(t)

InvertedSpec == InvertedInit /\ [][InvertedNext]_vars

\* The initial state of a container whose clients run the workload w.
WorkInit(w) ==
    /\ kind \in Kinds
    /\ work = w
    /\ items = <<>>
    /\ is_canceled = FALSE
    /\ high = DEFAULT_HIGH_WATER_MARK
    /\ low = DEFAULT_LOW_WATER_MARK
    /\ blocked = 0
    /\ cpc = [t \in CThreads |-> "idle"]
    /\ carg = [t \in CThreads |-> 0]
    /\ cflag = [t \in CThreads |-> FALSE]
    /\ last = NoCall
    /\ cmark = [t \in CThreads |-> "no"]
    /\ npush = 0
    /\ pushed = <<>>
    /\ popped = <<>>
    /\ NoEngine

\* a call that hands a value back: got is the value
Got(op, st, got) == [op |-> op, st |-> st, got |-> got]

\* size(): the_queue.size() under the mutex
CSize(t) ==
    /\ MayCall(t, "size")
    /\ last' = Got("size", "true", Len(items))
    /\ cmark' = [cmark EXCEPT ![t] = "no"]
    /\ UNCHANGED <<kind, work, items, is_canceled, high, low, blocked, cpc, carg,
                   cflag, npush, pushed, popped>>

\* is_empty(): if (is_canceled) throw Canceled(); return the_queue.empty()
CIsEmpty(t) ==
    /\ MayCall(t, "is_empty")
    /\ IF is_canceled
       THEN CReturn(t, "is_empty", "Canceled")
       ELSE CReturn(t, "is_empty", IF items = <<>> THEN "true" ELSE "false")
    /\ UNCHANGED <<kind, work, items, is_canceled, high, low, blocked, cpc, carg,
                   cflag, npush, pushed, popped>>

\* The workload "observe": three threads push, remove, cancel and look at
\* the container with size() and is_empty().
ObserveInit == WorkInit("observe")

ObserveCall(t) ==
    \/ \E v \in PushValues(kind, npush) : CPush(t, v)
    \/ CPop(t)
    \/ \E rev \in RevChoices(kind) : CTryGet(t, rev)
    \/ CCancel(t)
    \/ CSize(t)
    \/ CIsEmpty(t)

ObserveContinue(t) ==
    \/ CPushNotify(t)
    \/ CPopResume(t)
    \/ CCancelNotify(t)
    \/ CCancelNotifyWm(t)

ObserveNext ==
    /\ UNCHANGED evars
    /\ \E t \in CThreads : ObserveCall(t) \/ ObserveContinue(t) \/ CSpurious(t)

ObserveSpec == ObserveInit /\ [][ObserveNext]_vars

\* the order in which the elements of s leave the container kind k: the
\* queue from the front, the stack from the top, the set from the least
RemovalOrder(k, s) ==
    IF k = "stack" THEN [i \in 1..Len(s) |-> s[Len(s) + 1 - i]] ELSE s

\* std::swap(retval, the_queue): what wait_and_take_all hands back
SwappedFirst(s) == IF s = <<>> THEN s ELSE <<s[1]>>
Swapped(s) == s

\* COMMON_COND_WAIT({ break; }) followed by the swap: what a thread in
\* wait_and_take_all does each time it holds the mutex
CTakeBody(t) ==
    IF items = <<>> /\ ~is_canceled
    THEN /\ cpc' = [cpc EXCEPT ![t] = "take_wait"]
         /\ UNCHANGED <<items, popped, last, cmark>>
    ELSE /\ items' = <<>>
         /\ popped' = popped \o RemovalOrder(kind, Swapped(items))
         /\ cpc' = [cpc EXCEPT ![t] = "idle"]
         /\ last' = Got("take_all", "true", Swapped(items))
         /\ cmark' = [cmark EXCEPT ![t] = "no"]

\* wait_and_take_all(): the call up to its first wait
CTakeAll(t) ==
    /\ MayCall(t, "take_all")
    /\ CTakeBody(t)
    /\ UNCHANGED <<kind, work, is_canceled, high, low, blocked, carg, cflag, npush, pushed>>

\* a thread woken in wait_and_take_all re-evaluates the wait loops
CTakeResume(t) ==
    /\ cpc[t] = "take_ready"
    /\ CTakeBody(t)
    /\ UNCHANGED <<kind, work, is_canceled, high, low, blocked, carg, cflag, npush, pushed>>

\* The workload "takeall": three threads push, remove without blocking,
\* take everything and cancel.
TakeAllInit == WorkInit("takeall")

TakeAllCall(t) ==
    \/ \E v \in PushValues(kind, npush) : CPush(t, v)
    \/ \E rev \in RevChoices(kind) : CTryGet(t, rev)
    \/ CTakeAll(t)
    \/ CCancel(t)

TakeAllContinue(t) ==
    \/ CPushNotify(t)
    \/ CTakeResume(t)
    \/ CCancelNotify(t)
    \/ CCancelNotifyWm(t)

TakeAllNext ==
    /\ UNCHANGED evars
    /\ \E t \in CThreads : TakeAllCall(t) \/ TakeAllContinue(t) \/ CSpurious(t)

TakeAllSpec == TakeAllInit /\ [][TakeAllNext]_vars

\* the body of barrier(): what a thread in it does each time it holds the
\* mutex
CBarrierBody(t) ==
    IF items = <<>> /\ ~is_canceled
    THEN /\ cpc' = [cpc EXCEPT ![t] = "bar_wait"]
         /\ UNCHANGED <<last, cmark>>
    ELSE /\ cpc' = [cpc EXCEPT ![t] = "idle"]
         /\ CReturn(t, "barrier", IF is_canceled THEN "Canceled" ELSE "true")

\* barrier(): the call up to its first wait
CBarrier(t) ==
    /\ MayCall(t, "barrier")
    /\ CBarrierBody(t)
    /\ UNCHANGED <<kind, work, items, is_canceled, high, low, blocked, carg,
                   cflag, npush, pushed, popped>>

\* a thread woken in barrier() re-evaluates the wait loop
CBarrierResume(t) ==
    /\ cpc[t] = "bar_ready"
    /\ CBarrierBody(t)
    /\ UNCHANGED <<kind, work, items, is_canceled, high, low, blocked, carg,
                   cflag, npush, pushed, popped>>

\* The workload "barrier": three threads push, remove with the blocking
\* call and wait in barrier().  A thread that is inside a call is scheduled
\* again; nothing forces a client to begin a call, nor a spurious wakeup.
BarrierInit == WorkInit("barrier")

BarrierCall(t) ==
    \/ \E v \in PushValues(kind, npush) : CPush(t, v)
    \/ CPop(t)
    \/ CBarrier(t)

BarrierContinue(t) ==
    /\ UNCHANGED evars
    /\ \/ CPushNotify(t)
       \/ CPopResume(t)
       \/ CBarrierResume(t)

BarrierNext ==
    \E t \in CThreads :
        \/ UNCHANGED evars /\ BarrierCall(t)
        \/ BarrierContinue(t)
        \/ UNCHANGED evars /\ CSpurious(t)

BarrierFairSpec ==
    BarrierInit /\ [][BarrierNext]_vars
       /\ \A t \in CThreads : WF_vars(BarrierContinue(t))

\* The workload "setorder": three threads insert the values 1, 3 and 5 into
\* the set and remove with get() and try_get() without the reverse flag.
SetOrderInit == WorkInit("setorder") /\ kind = "set"

SetOrderCall(t) ==
    \/ \E v \in PushValues(kind, npush) : CPush(t, v)
    \/ CPop(t)
    \/ CTryGet(t, FALSE)

SetOrderContinue(t) ==
    \/ CPushNotify(t)
    \/ CPopResume(t)

SetOrderNext ==
    /\ UNCHANGED evars
    /\ \E t \in CThreads : SetOrderCall(t) \/ SetOrderContinue(t) \/ CSpurious(t)

SetOrderSpec == SetOrderInit /\ [][SetOrderNext]_vars

\* concurrent_set::clear(): the_set.clear() under the mutex
CClear(t) ==
    /\ MayCall(t, "clear")
    /\ kind = "set"
    /\ items' = <<>>
    /\ CReturn(t, "clear", "true")
    /\ UNCHANGED <<kind, work, is_canceled, high, low, blocked, cpc, carg,
                   cflag, npush, pushed, popped>>

\* concurrent_set::erase(item): the_set.erase(item) under the mutex
CErase(t, v) ==
    /\ MayCall(t, "erase")
    /\ kind = "set"
    /\ items' = SelectSeq(items, LAMBDA x : x # v)
    /\ CReturn(t, "erase", IF v \in Range(items) THEN "true" ELSE "false")
    /\ UNCHANGED <<kind, work, is_canceled, high, low, blocked, cpc, carg,
                   cflag, npush, pushed, popped>>

\* The workload "bulk", with the scheduling the progress of a call rests
\* on: a thread that is inside a call is scheduled again; nothing forces a
\* client to begin a call, nor a spurious wakeup.
BulkInit == WorkInit("bulk")

BulkCall(t) ==
    \/ \E w \in WatermarkChoices : CSetWatermarks(t, w[1], w[2])
    \/ \E v \in PushValues(kind, npush) : CPush(t, v)
    \/ CTakeAll(t)
    \/ CClear(t)
    \/ \E v \in DedupValues : CErase(t, v)
    \/ CCancel(t)

BulkContinue(t) ==
    /\ UNCHANGED evars
    /\ \/ CPushResume(t)
       \/ CPushNotify(t)
       \/ CTakeResume(t)
       \/ CCancelNotify(t)
       \/ CCancelNotifyWm(t)

BulkNext ==
    \E t \in CThreads :
        \/ UNCHANGED evars /\ BulkCall(t)
        \/ BulkContinue(t)
        \/ UNCHANGED evars /\ CSpurious(t)

BulkFairSpec ==
    BulkInit /\ [][BulkNext]_vars
       /\ \A t \in CThreads : WF_vars(BulkContinue(t))

\* concurrent_set::try_get(nelt, reverse), the loop: nelt times, take
\* *the_set.crbegin() (reverse) or *the_set.cbegin(), erase it and
\* emplace_back it to elvec
RECURSIVE BatchErase(_, _, _, _)
BatchErase(s, elvec, nelt, rev) ==
    IF nelt = 0 THEN [the_set |-> s, elvec |-> elvec]
    ELSE LET i == NextIndex("set", s, rev)
         IN  BatchErase(RemoveAt(s, i), Append(elvec, s[i]), nelt - 1, rev)

\* concurrent_set::try_get(nelt, reverse): under one lock, return the
\* empty vector if the set is empty, else lower nelt to the size, run the
\* loop, COMMON_WATERMARK_NOTIFY and return elvec
CTryGetN(t, n, rev) ==
    /\ MayCall(t, "try_get_n")
    /\ kind = "set"
    /\ IF items = <<>>
       THEN /\ last' = Got("try_get_n", "true", <<>>)
            /\ UNCHANGED <<items, popped, cpc>>
       ELSE LET nelt == IF Len(items) < n THEN Len(items) ELSE n
                res == BatchErase(items, <<>>, nelt, rev)
            IN  /\ items' = res.the_set
                /\ popped' = popped \o res.elvec
                /\ cpc' = [cpc EXCEPT ![t] =
                             IF ShouldNotify(blocked, res.the_set, low)
                             THEN "pop_notify" ELSE "idle"]
                /\ last' = Got("try_get_n", "true", res.elvec)
    /\ cmark' = [cmark EXCEPT ![t] = "no"]
    /\ UNCHANGED <<kind, work, is_canceled, high, low, blocked, carg, cflag,
                   npush, pushed>>

\* The workload "batch" of the set.
BatchInit == WorkInit("batch") /\ kind = "set"

BatchCall(t) ==
    \/ \E v \in PushValues(kind, npush) : CPush(t, v)
    \/ \E rev \in RevChoices(kind) : CTryGet(t, rev)
    \/ \E n \in 0..MaxBatch : \E rev \in RevChoices(kind) : CTryGetN(t, n, rev)

BatchContinue(t) == CPushNotify(t)

BatchNext ==
    /\ UNCHANGED evars
    /\ \E t \in CThreads : BatchCall(t) \/ BatchContinue(t)

BatchSpec == BatchInit /\ [][BatchNext]_vars

(***************************************************************************)
(* Properties of the containers.                                           *)
(***************************************************************************)
Min(S) == CHOOSE x \in S : \A y \in S : x <= y
Max(S) == CHOOSE x \in S : \A y \in S : x >= y

\* the elements pushed and not yet removed, in the order they were pushed
\* (the queue and the stack hold distinct elements)
Live == SelectSeq(pushed, LAMBDA x : x \notin Range(popped))

\* thread t, which had blocked at the high watermark, performs its insert
InsertsAfterBlocking(t) ==
    cpc[t] \in {"push_ready", "push_spur"} /\ cpc'[t] = "push_notify"

C6_BlockedRemoverOnlyRaises ==
    [][\A t \in CThreads :
          (cmark[t] \in {"canceled", "reset"} /\ cpc[t] = "pop_ready"
              /\ cpc'[t] \notin PopWaiting)
             => last' = Done("pop", "Canceled")]_vars

\* C6 amended: a thread that was blocked in the blocking removal on an
\* empty container when cancel() hit eventually ends that call, raising
\* Canceled and returning no element, unless reset() takes effect before
\* the thread has re-acquired the mutex.
C6_BlockedRemoverRaisesUnlessReset ==
    /\ \A t \in CThreads :
          (cmark[t] = "canceled") ~> (cmark[t] = "reset" \/ cpc[t] = "idle")
    /\ [][\A t \in CThreads :
             (cmark[t] = "canceled" /\ cmark'[t] = "no")
                => (cpc'[t] = "idle" /\ last' = Done("pop", "Canceled")
                    /\ items' = items /\ popped' = popped)]_vars

\* a remover that was blocked when cancel() hit has been woken by it
C6_Witness ==
    \E t \in CThreads :
       cmark[t] = "canceled" /\ cpc[t] = "pop_ready" /\ is_canceled

\* C7: while the container is canceled, every push/insert ends by raising
\* Canceled: no element is added, the contents only shrink, a call that
\* begins is refused without touching the blocked-inserter counter, and an
\* inserter that was blocked gives back the one it had counted.
C7_CanceledInsertHasNoEffect ==
    [][is_canceled =>
          /\ pushed' = pushed
          /\ Len(items') <= Len(items)
          /\ (last'.op = "push" /\ last' # last)
                => (last'.st = "Canceled" /\ items' = items)
          /\ \A t \in CThreads :
                /\ cpc'[t] \in PushWaiting => cpc[t] \in PushWaiting
                /\ cpc'[t] = "push_notify" => cpc[t] = "push_notify"
                /\ (cpc[t] \in PushWaiting /\ cpc'[t] \notin PushWaiting)
                      => (cpc'[t] = "idle" /\ last' = Done("push", "Canceled")
                          /\ items' = items)
          /\ blocked' = blocked - Cardinality({t \in CThreads :
                 cpc[t] \in PushWaiting /\ cpc'[t] \notin PushWaiting})]_vars

\* a push on a canceled, non-empty container has been refused
C7_Witness ==
    is_canceled /\ last = Done("push", "Canceled") /\ items # <<>>

\* the element a non-blocking removal must return: the oldest live element
\* of the queue, the newest of the stack, the least or (reverse flag) the
\* greatest of the set
DrainChoices ==
    IF kind = "queue" THEN {Live[1]}
    ELSE IF kind = "stack" THEN {Live[Len(Live)]}
    ELSE {Min(Range(items)), Max(Range(items))}

\* C8: on a canceled container only the non-blocking removal changes the
\* contents; on n elements it returns true and the next element in removal
\* order, once for each, and false on the empty container; it never raises
\* Canceled.
C8_CanceledContainerDrains ==
    [][is_canceled =>
          /\ items' # items => last' = Done("try_get", "true")
          /\ (last'.op = "try_get" /\ (last' # last \/ items' # items)) =>
                IF items = <<>>
                THEN last'.st = "false" /\ items' = items /\ popped' = popped
                ELSE /\ last'.st = "true"
                     /\ Len(items') = Len(items) - 1
                     /\ Len(popped') = Len(popped) + 1
                     /\ Last(popped') \in DrainChoices
                     /\ Range(items') = Range(items) \ {Last(popped')}]_vars

\* a canceled container has been drained of two elements and the next
\* try_get has returned false
C8_Witness ==
    /\ is_canceled /\ items = <<>> /\ Len(popped) >= 2
    /\ last = Done("try_get", "false")

\* C9: the values the queue has returned, followed by those it still holds,
\* are the pushed values in the order the pushes took effect.
C9_QueueFifo ==
    kind = "queue" => pushed = popped \o items

\* 1,2,3,4,5 were pushed with the default watermarks and removed in that
\* order, and the queue is empty
C9_Witness ==
    /\ kind = "queue" /\ high = DEFAULT_HIGH_WATER_MARK
    /\ pushed = <<1, 2, 3, 4, 5>> /\ popped = <<1, 2, 3, 4, 5>>
    /\ items = <<>>

\* C10: every removal from the stack returns the most recently pushed
\* element that has not been removed yet.
C10_StackLifo ==
    [][(kind = "stack" /\ popped' # popped) =>
          (Live # <<>> /\ Last(popped') = Live[Len(Live)])]_vars

\* 1,2,3,4,5 were pushed with no removal in between and came out reversed
C10_Witness ==
    /\ kind = "stack"
    /\ pushed = <<1, 2, 3, 4, 5>> /\ popped = <<5, 4, 3, 2, 1>>


(***************************************************************************)
(* The engines async_caller and async_buffer.                              *)
(*                                                                         *)
(* async_buffer is async_caller with the queue replaced by a set, and      *)
(* with a stall flag for its writer threads; one set of actions stands     *)
(* for both, and ekind tells where they differ.                            *)
(*                                                                         *)
(* _store_queue / _store_set is taken as the linearizable container the    *)
(* container model above describes: a push, a value_pop, a cancel is one   *)
(* atomic step, and a worker inside value_pop proceeds when the container  *)
(* holds an element or is canceled.  The engine leaves the container's     *)
(* own watermarks at their defaults, so a push never waits.  A polling     *)
(* loop (sleep 1 ms, test again) is a step that is enabled when the test   *)
(* lets the loop end.  Statements that touch only atomics nobody else      *)
(* reads in between are folded into the neighbouring step.  Clocks         *)
(* (_drain_msec) are left out.                                             *)
(***************************************************************************)

\* a run that studies the engine has no container client
NoContainer ==
    /\ kind = "queue"
    /\ work = "none"
    /\ items = <<>>
    /\ is_canceled = FALSE
    /\ high = DEFAULT_HIGH_WATER_MARK
    /\ low = DEFAULT_LOW_WATER_MARK
    /\ blocked = 0
    /\ cpc = [t \in CThreads |-> "idle"]
    /\ carg = [t \in CThreads |-> 0]
    /\ cflag = [t \in CThreads |-> FALSE]
    /\ last = NoCall
    /\ cmark = [t \in CThreads |-> "no"]
    /\ npush = 0
    /\ pushed = <<>>
    /\ popped = <<>>

\* the values handed to the engine's set_watermarks(hi, lo)
EWatermarkChoices == {<<1, 0>>}

\* The scenarios the engine is run in.  In "shutdown" the owner destroys
\* the engine while producers call enqueue() and barrier() and a handler
\* may call enqueue(); in "reentrant" the engine stays up, the watermarks
\* may be set, and a handler may call enqueue() or barrier(); in "stall"
\* (async_buffer) the engine stays up and producers call insert(),
\* barrier(), stall() and set_watermarks().
Scenarios == {"shutdown", "reentrant"}
ScenariosOf(ek) ==
    IF ek = "buffer" THEN Scenarios \cup {"stall"} ELSE Scenarios

\* what a handler does with its element: nothing more, or a call back
\* into the engine that runs it
HandlerChoices(sc) ==
    IF sc \in {"stall", "progress", "restore", "fifo", "halt"}
          \/ (sc = "shutdown" /\ ekind = "buffer")
    THEN {"plain"}
    ELSE IF sc = "shutdown" THEN {"plain", "enqueue"}
    ELSE {"plain", "enqueue", "barrier"}

\* The producers that make a call in a scenario.  async_caller: every
\* producer makes every call.  async_buffer: in "shutdown" nobody calls
\* barrier(); in "reentrant" and "stall" p1 calls insert() and p2 the rest;
\* in "restore" p2 calls barrier() and p1 the rest.  In "fifo" the only
\* call is enqueue(), made by p1.  In "halt" p1 calls enqueue() / insert()
\* and stall().
Callers(ek, sc, op) ==
    IF sc = "fifo" THEN (IF op = "enqueue" THEN {"p1"} ELSE {})
    ELSE IF sc = "halt" THEN (IF op \in {"enqueue", "stall"} THEN {"p1"} ELSE {})
    ELSE IF ek = "caller" THEN Producers
    ELSE IF sc = "shutdown" THEN (IF op = "enqueue" THEN Producers ELSE {})
    ELSE IF sc = "restore" THEN (IF op = "barrier" THEN {"p2"} ELSE {"p1"})
    ELSE IF op = "enqueue" THEN {"p1"}
    ELSE {"p2"}

\* the program points of barrier()
InBarrier == {"b_lock", "b_clear", "b_flush", "b_drain"}

\* producer t may begin the call op now: in the scenarios "shutdown",
\* "reentrant" and "stall" as long as the destructor has not returned, in
\* the scenario "progress" at any time, barrier() only while
\* stop_writer_threads() is not running, in the scenario "halt" only
\* before stop_writer_threads() is called
MayBegin(t, op) ==
    /\ t \in Callers(ekind, ework, op)
    /\ epc[t] = "idle"
    /\ IF ework = "progress"
       THEN op = "barrier" => epc[Owner] \in {"idle", "stopped"}
       ELSE IF ework = "halt" THEN epc[Owner] = "idle"
       ELSE epc[Owner] # "stopped"

\* the watermarks set in a scenario
WatermarksOf(sc) == IF sc = "stall" THEN {<<2, 2>>} ELSE EWatermarkChoices

\* the container class inside the engine
ContainerOf(ek) == IF ek = "buffer" THEN "set" ELSE "queue"

\* the element of the (n+1)-th enqueue() / insert() call: async_caller is
\* given a new element each time, async_buffer a value it has been given
\* before or the next new one
EnqueueValues(ek, n) ==
    IF ek = "buffer" THEN 1..(IF n + 1 < MaxVal THEN n + 1 ELSE MaxVal)
    ELSE {n + 1}

\* the first statement of write_loop's while (true)
LoopTop == IF ekind = "buffer" THEN "w_stall" ELSE "w_pop"

\* async_caller(wr, cb, nthreads), for nthreads = n
EConstruct(n) ==
    /\ store_queue = <<>>
    /\ store_canceled = FALSE
    /\ write_threads = SubSeq(WorkerOrder, 1, n)
    /\ thread_count = n
    /\ enqueue_mutex = "none"
    /\ busy_writers = 0
    /\ pending = 0
    /\ high_watermark = ENGINE_HIGH_WATER_MARK
    /\ low_watermark = ENGINE_LOW_WATER_MARK
    /\ stopping_writers = FALSE
    /\ stall_writers = FALSE
    /\ in_drain = FALSE
    /\ item_count = 0
    /\ duplicate_count = 0
    /\ flush_count = 0
    /\ drain_count = 0
    /\ drain_concurrent = 0
    /\ epc = [t \in EThreads |->
                IF t \in Range(SubSeq(WorkerOrder, 1, n)) THEN LoopTop
                ELSE IF t \in Workers THEN "unstarted" ELSE "idle"]
    /\ earg = [t \in EThreads |-> 0]
    /\ elt = [t \in Workers |-> 0]
    /\ save_stall = [t \in EThreads |-> FALSE]
    /\ terminated = FALSE

\* an engine of class ek, constructed, and the empty history
EngineInit(ek) ==
    /\ NoContainer
    /\ ekind = ek
    /\ ework \in ScenariosOf(ek)
    /\ \E n \in 0..Len(WorkerOrder) : EConstruct(n)
    /\ nenqueue = 0
    /\ nbarrier = 0
    /\ handled = [e \in Elements |-> 0]
    /\ accepted = [e \in Elements |-> 0]
    /\ completed = {}
    /\ returned = {}
    /\ snapshot = [t \in Producers |-> {}]
    /\ stall_set = FALSE

EInit == EngineInit("caller")

\* the test of the thread id left out: every thread takes the lock
IsWriterNever(t) == FALSE

\* for (const auto& th : _write_threads) if (th.get_id() == tid)
IsWriter(t) == t \in Range(write_threads)

\* where a thread goes on when its call into the engine returns: a worker
\* is back in its handler, which then returns to write_loop
AfterCall(t) == IF t \in Workers THEN "w_end" ELSE "idle"

\* the unique_lock on _enqueue_mutex goes out of scope
Unlock(t) == IF enqueue_mutex = t THEN "none" ELSE enqueue_mutex

\* (_writer->*_do_write)(elt) is entered
InvokeNone(e) == handled' = handled
Invoke(e) == handled' = [handled EXCEPT ![e] = @ + 1]

\* the loop test of drain(): while (0 < _pending)
DrainDoneWhenEmpty == Len(store_queue) = 0
DrainDone == pending = 0

\* the loop test of flush_queue() / flush(): while (0 < size())
FlushDone == Len(store_queue) = 0

\* the loop test of write_loop's stall:
\* while (_stall_writers and _store_set.size() < _low_watermark)
MustStall == stall_writers /\ Len(store_queue) < low_watermark

\* concurrent_set::insert_impl: return before < after (the queue's push
\* always adds)
InsertedAlways(before, after) == TRUE
InsertedNever(before, after) == FALSE
Inserted(before, after) == Len(before) < Len(after)

\* async_buffer::drain() / flush(): _stall_writers = save_stall
RestoreStall(t) == IF ekind = "buffer" THEN save_stall[t] ELSE stall_writers

\* enqueue(): return
EReturn(t) ==
    /\ returned' = returned \cup {earg[t]}
    /\ epc' = [epc EXCEPT ![t] = AfterCall(t)]
    /\ earg' = [earg EXCEPT ![t] = 0]

\* enqueue(elt) / insert(elt) without its test of _stopping_writers
EnqueueBeginUnchecked(t, v) ==
    /\ nenqueue' = nenqueue + 1
    /\ epc' = [epc EXCEPT ![t] = "e_count"]
    /\ earg' = [earg EXCEPT ![t] = v]
    /\ UNCHANGED terminated

\* enqueue(elt) / insert(elt) is entered by thread t:
\* if (_stopping_writers) throw RuntimeException.  Thrown inside a handler
\* the exception leaves write_loop, which catches Canceled only:
\* std::terminate.
EnqueueBegin(t, v) ==
    /\ nenqueue' = nenqueue + 1
    /\ IF stopping_writers
       THEN /\ terminated' = (t \in Workers)
            /\ UNCHANGED <<epc, earg>>
       ELSE /\ epc' = [epc EXCEPT ![t] = "e_count"]
            /\ earg' = [earg EXCEPT ![t] = v]
            /\ UNCHANGED terminated

\* a producer calls enqueue() / insert()
EEnqueue(t) ==
    /\ MayBegin(t, "enqueue")
    /\ nenqueue < MaxEnqueue
    /\ \E v \in EnqueueValues(ekind, nenqueue) : EnqueueBegin(t, v)
    /\ UNCHANGED <<store_queue, store_canceled, write_threads, thread_count,
                   enqueue_mutex, busy_writers, pending, high_watermark,
                   low_watermark, stopping_writers, stall_writers, in_drain,
                   item_count, duplicate_count, flush_count, drain_count,
                   drain_concurrent, elt, save_stall, ekind, ework,
                   nbarrier, handled, accepted, completed, returned,
                   snapshot, stall_set>>

\* enqueue(): if (0 == _thread_count) { _item_count++; handler; return; }
ECount(t) ==
    /\ epc[t] = "e_count"
    /\ IF thread_count = 0
       THEN /\ item_count' = item_count + 1
            /\ Invoke(earg[t])
            /\ accepted' = [accepted EXCEPT ![earg[t]] = @ + 1]
            /\ completed' = completed \cup {earg[t]}
            /\ EReturn(t)
       ELSE /\ epc' = [epc EXCEPT ![t] = "e_lock"]
            /\ UNCHANGED <<item_count, handled, accepted, completed,
                           returned, earg>>
    /\ UNCHANGED <<store_queue, store_canceled, write_threads, thread_count,
                   enqueue_mutex, busy_writers, pending, high_watermark,
                   low_watermark, stopping_writers, stall_writers, in_drain,
                   duplicate_count, flush_count, drain_count,
                   drain_concurrent, elt, save_stall, terminated, ekind,
                   ework, nenqueue, nbarrier, snapshot, stall_set>>

\* enqueue() without the lock of _enqueue_mutex
ELockUnguarded(t) ==
    /\ epc[t] = "e_lock"
    /\ pending' = pending + 1
    /\ epc' = [epc EXCEPT ![t] = "e_push"]
    /\ UNCHANGED <<store_queue, store_canceled, write_threads, thread_count,
                   enqueue_mutex, busy_writers, high_watermark,
                   low_watermark, stopping_writers, stall_writers, in_drain,
                   item_count, duplicate_count, flush_count, drain_count,
                   drain_concurrent, earg, elt, save_stall, terminated,
                   ekind, ework, nenqueue, nbarrier, handled, accepted,
                   completed, returned, snapshot, stall_set>>

\* enqueue(): a writer thread goes straight to _pending++; any other
\* thread first locks _enqueue_mutex
ELock(t) ==
    /\ epc[t] = "e_lock"
    /\ IsWriter(t) \/ enqueue_mutex = "none"
    /\ enqueue_mutex' = IF IsWriter(t) THEN enqueue_mutex ELSE t
    /\ pending' = pending + 1
    /\ epc' = [epc EXCEPT ![t] = "e_push"]
    /\ UNCHANGED <<store_queue, store_canceled, write_threads, thread_count,
                   busy_writers, high_watermark, low_watermark,
                   stopping_writers, stall_writers, in_drain, item_count,
                   duplicate_count, flush_count, drain_count,
                   drain_concurrent, earg, elt, save_stall, terminated,
                   ekind, ework, nenqueue, nbarrier, handled, accepted,
                   completed, returned, snapshot, stall_set>>

\* enqueue(): _store_queue.push(elt); _item_count++; and the lock is
\* dropped.  do_insert(): inserted = _store_set.insert(elt);
\* _item_count++; if (not inserted) { _duplicate_count++; _pending--; }.
\* push / insert throws Canceled on a canceled container: the exception
\* leaves enqueue() and, in a writer thread, ends write_loop.
EPush(t) ==
    /\ epc[t] = "e_push"
    /\ enqueue_mutex' = Unlock(t)
    /\ IF store_canceled
       THEN /\ epc' = [epc EXCEPT ![t] = IF t \in Workers THEN "exited" ELSE "idle"]
            /\ earg' = [earg EXCEPT ![t] = 0]
            /\ UNCHANGED <<store_queue, item_count, duplicate_count,
                           pending, accepted>>
       ELSE LET after == DoInsert(ContainerOf(ekind), store_queue, earg[t])
                inserted == Inserted(store_queue, after)
            IN  /\ store_queue' = after
                /\ item_count' = item_count + 1
                /\ duplicate_count' = IF inserted THEN duplicate_count
                                      ELSE duplicate_count + 1
                /\ pending' = IF inserted THEN pending ELSE pending - 1
                /\ accepted' = IF inserted
                               THEN [accepted EXCEPT ![earg[t]] = @ + 1]
                               ELSE accepted
                /\ epc' = [epc EXCEPT ![t] = "e_size"]
                /\ UNCHANGED earg
    /\ UNCHANGED <<store_canceled, write_threads, thread_count,
                   busy_writers, high_watermark, low_watermark,
                   stopping_writers, stall_writers, in_drain, flush_count,
                   drain_count, drain_concurrent, elt, save_stall,
                   terminated, ekind, ework, nenqueue, nbarrier, handled,
                   completed, returned, snapshot, stall_set>>

\* enqueue(): if (_high_watermark < _store_queue.size())
ESize(t) ==
    /\ epc[t] = "e_size"
    /\ IF high_watermark < Len(store_queue)
       THEN /\ drain_concurrent' = IF in_drain THEN drain_concurrent + 1
                                   ELSE drain_concurrent
            /\ drain_count' = IF in_drain THEN drain_count ELSE drain_count + 1
            /\ in_drain' = TRUE
            /\ epc' = [epc EXCEPT ![t] = "e_stall"]
            /\ UNCHANGED <<earg, returned>>
       ELSE /\ EReturn(t)
            /\ UNCHANGED <<drain_concurrent, drain_count, in_drain>>
    /\ UNCHANGED <<store_queue, store_canceled, write_threads, thread_count,
                   enqueue_mutex, busy_writers, pending, high_watermark,
                   low_watermark, stopping_writers, stall_writers,
                   item_count, duplicate_count, flush_count, elt,
                   save_stall, terminated, ekind, ework, nenqueue, nbarrier,
                   handled, accepted, completed, snapshot, stall_set>>

\* the wait of enqueue() ended without the test of the low watermark
EStallUntested(t) ==
    /\ epc[t] = "e_stall"
    /\ in_drain' = FALSE
    /\ EReturn(t)
    /\ UNCHANGED <<store_queue, store_canceled, write_threads, thread_count,
                   enqueue_mutex, busy_writers, pending, high_watermark,
                   low_watermark, stopping_writers, stall_writers,
                   item_count, duplicate_count, flush_count, drain_count,
                   drain_concurrent, elt, save_stall, terminated, ekind,
                   ework, nenqueue, nbarrier, handled, accepted, completed,
                   snapshot, stall_set>>

\* enqueue(): do sleep while (_low_watermark < _store_queue.size())
EStall(t) ==
    /\ epc[t] = "e_stall"
    /\ ~(low_watermark < Len(store_queue))
    /\ in_drain' = FALSE
    /\ EReturn(t)
    /\ UNCHANGED <<store_queue, store_canceled, write_threads, thread_count,
                   enqueue_mutex, busy_writers, pending, high_watermark,
                   low_watermark, stopping_writers, stall_writers,
                   item_count, duplicate_count, flush_count, drain_count,
                   drain_concurrent, elt, save_stall, terminated, ekind,
                   ework, nenqueue, nbarrier, handled, accepted, completed,
                   snapshot, stall_set>>

\* set_watermarks(hi, lo), called before the engine is put to work
ESetWatermarks(t, hi, lo) ==
    /\ MayBegin(t, "set_watermarks")
    /\ ework \in {"reentrant", "stall"}
    /\ nenqueue = 0
    /\ nbarrier = 0
    /\ high_watermark = ENGINE_HIGH_WATER_MARK
    /\ high_watermark' = hi
    /\ low_watermark' = lo
    /\ UNCHANGED <<store_queue, store_canceled, write_threads, thread_count,
                   enqueue_mutex, busy_writers, pending, stopping_writers,
                   stall_writers, in_drain, item_count, duplicate_count,
                   flush_count, drain_count, drain_concurrent, epc, earg,
                   elt, save_stall, terminated, ekind, ework, nenqueue,
                   nbarrier, handled, accepted, completed, returned,
                   snapshot, stall_set>>

\* async_buffer::stall(st)
BufStall(t, st) ==
    /\ MayBegin(t, "stall")
    /\ ework \in {"stall", "restore", "halt"}
    /\ stall_writers' = st
    /\ stall_set' = st
    /\ UNCHANGED <<store_queue, store_canceled, write_threads, thread_count,
                   enqueue_mutex, busy_writers, pending, high_watermark,
                   low_watermark, stopping_writers, in_drain, item_count,
                   duplicate_count, flush_count, drain_count,
                   drain_concurrent, epc, earg, elt, save_stall, terminated,
                   ekind, ework, nenqueue, nbarrier, handled, accepted,
                   completed, returned, snapshot>>

\* async_buffer::flush() is called by a producer:
\* bool save_stall = _stall_writers
FBegin(t) ==
    /\ MayBegin(t, "flush")
    /\ ework = "restore"
    /\ flush_count < MaxBarrier
    /\ save_stall' = [save_stall EXCEPT ![t] = stall_writers]
    /\ epc' = [epc EXCEPT ![t] = "f_clear"]
    /\ UNCHANGED <<store_queue, store_canceled, write_threads, thread_count,
                   enqueue_mutex, busy_writers, pending, high_watermark,
                   low_watermark, stopping_writers, stall_writers, in_drain,
                   item_count, duplicate_count, flush_count, drain_count,
                   drain_concurrent, earg, elt, terminated, ekind, ework,
                   nenqueue, nbarrier, handled, accepted, completed,
                   returned, snapshot, stall_set>>

\* async_buffer::flush(): _stall_writers = false; _flush_count++
FClear(t) ==
    /\ epc[t] = "f_clear"
    /\ stall_writers' = FALSE
    /\ flush_count' = flush_count + 1
    /\ epc' = [epc EXCEPT ![t] = "b_flush"]
    /\ UNCHANGED <<store_queue, store_canceled, write_threads, thread_count,
                   enqueue_mutex, busy_writers, pending, high_watermark,
                   low_watermark, stopping_writers, in_drain, item_count,
                   duplicate_count, drain_count, drain_concurrent, earg,
                   elt, save_stall, terminated, ekind, ework, nenqueue,
                   nbarrier, handled, accepted, completed, returned,
                   snapshot, stall_set>>

\* a producer calls barrier()
EBarrier(t) ==
    /\ MayBegin(t, "barrier")
    /\ nbarrier < MaxBarrier
    /\ nbarrier' = nbarrier + 1
    /\ snapshot' = [snapshot EXCEPT ![t] = returned]
    /\ epc' = [epc EXCEPT ![t] = "b_lock"]
    /\ UNCHANGED <<store_queue, store_canceled, write_threads, thread_count,
                   enqueue_mutex, busy_writers, pending, high_watermark,
                   low_watermark, stopping_writers, stall_writers, in_drain,
                   item_count, duplicate_count, flush_count, drain_count,
                   drain_concurrent, earg, elt, save_stall, terminated,
                   ekind, ework, nenqueue, handled, accepted, completed,
                   returned, stall_set>>

\* barrier(): lock _enqueue_mutex; a writer thread goes on to
\* flush_queue(), any other thread to drain().  In async_caller both
\* begin with _flush_count++, in async_buffer with
\* bool save_stall = _stall_writers.
BLock(t) ==
    /\ epc[t] = "b_lock"
    /\ enqueue_mutex = "none"
    /\ enqueue_mutex' = t
    /\ IF ekind = "buffer"
       THEN /\ save_stall' = [save_stall EXCEPT ![t] = stall_writers]
            /\ epc' = [epc EXCEPT ![t] = "b_clear"]
            /\ UNCHANGED flush_count
       ELSE /\ flush_count' = flush_count + 1
            /\ epc' = [epc EXCEPT ![t] = IF IsWriter(t) THEN "b_flush" ELSE "b_drain"]
            /\ UNCHANGED save_stall
    /\ UNCHANGED <<store_queue, store_canceled, write_threads, thread_count,
                   busy_writers, pending, high_watermark, low_watermark,
                   stopping_writers, stall_writers, in_drain, item_count,
                   duplicate_count, drain_count, drain_concurrent, earg,
                   elt, terminated, ekind, ework, nenqueue, nbarrier,
                   handled, accepted, completed, returned, snapshot,
                   stall_set>>

\* async_buffer::drain() / flush(): _stall_writers = false; _flush_count++
BClear(t) ==
    /\ epc[t] = "b_clear"
    /\ stall_writers' = FALSE
    /\ flush_count' = flush_count + 1
    /\ epc' = [epc EXCEPT ![t] = IF IsWriter(t) THEN "b_flush" ELSE "b_drain"]
    /\ UNCHANGED <<store_queue, store_canceled, write_threads, thread_count,
                   enqueue_mutex, busy_writers, pending, high_watermark,
                   low_watermark, stopping_writers, in_drain, item_count,
                   duplicate_count, drain_count, drain_concurrent, earg,
                   elt, save_stall, terminated, ekind, ework, nenqueue,
                   nbarrier, handled, accepted, completed, returned,
                   snapshot, stall_set>>

\* barrier() in a writer thread: flush_queue() / flush() sees the
\* container empty
BFlush(t) ==
    /\ epc[t] = "b_flush"
    /\ FlushDone
    /\ stall_writers' = RestoreStall(t)
    /\ save_stall' = [save_stall EXCEPT ![t] = FALSE]
    /\ enqueue_mutex' = Unlock(t)
    /\ epc' = [epc EXCEPT ![t] = AfterCall(t)]
    /\ UNCHANGED <<store_queue, store_canceled, write_threads, thread_count,
                   busy_writers, pending, high_watermark, low_watermark,
                   stopping_writers, in_drain, item_count, duplicate_count,
                   flush_count, drain_count, drain_concurrent, earg, elt,
                   terminated, ekind, ework, nenqueue, nbarrier, handled,
                   accepted, completed, returned, snapshot, stall_set>>

\* barrier() in any other thread: drain() sees _pending at 0
BDrain(t) ==
    /\ epc[t] = "b_drain"
    /\ DrainDone
    /\ stall_writers' = RestoreStall(t)
    /\ save_stall' = [save_stall EXCEPT ![t] = FALSE]
    /\ enqueue_mutex' = Unlock(t)
    /\ epc' = [epc EXCEPT ![t] = AfterCall(t)]
    /\ UNCHANGED <<store_queue, store_canceled, write_threads, thread_count,
                   busy_writers, pending, high_watermark, low_watermark,
                   stopping_writers, in_drain, item_count, duplicate_count,
                   flush_count, drain_count, drain_concurrent, earg, elt,
                   terminated, ekind, ework, nenqueue, nbarrier, handled,
                   accepted, completed, returned, snapshot, stall_set>>

\* async_buffer::write_loop():
\* while (_stall_writers and _store_set.size() < _low_watermark) sleep
WStall(w) ==
    /\ w \in Workers
    /\ epc[w] = "w_stall"
    /\ ~MustStall
    /\ epc' = [epc EXCEPT ![w] = "w_pop"]
    /\ UNCHANGED <<store_queue, store_canceled, write_threads, thread_count,
                   enqueue_mutex, busy_writers, pending, high_watermark,
                   low_watermark, stopping_writers, stall_writers, in_drain,
                   item_count, duplicate_count, flush_count, drain_count,
                   drain_concurrent, earg, elt, save_stall, terminated,
                   ekind, ework, nenqueue, nbarrier, handled, accepted,
                   completed, returned, snapshot, stall_set>>

\* write_loop(): Element elt = _store_queue.value_pop().  On a canceled
\* queue value_pop throws Canceled, elements or not, and the thread ends.
WPop(w) ==
    /\ w \in Workers
    /\ epc[w] = "w_pop"
    /\ store_canceled \/ Len(store_queue) > 0
    /\ IF store_canceled
       THEN /\ epc' = [epc EXCEPT ![w] = "exited"]
            /\ UNCHANGED <<store_queue, elt>>
       ELSE LET i == NextIndex(ContainerOf(ekind), store_queue, FALSE)
            IN  /\ elt' = [elt EXCEPT ![w] = store_queue[i]]
                /\ store_queue' = RemoveAt(store_queue, i)
                /\ epc' = [epc EXCEPT ![w] = "w_call"]
    /\ UNCHANGED <<store_canceled, write_threads, thread_count,
                   enqueue_mutex, busy_writers, pending, high_watermark,
                   low_watermark, stopping_writers, stall_writers, in_drain,
                   item_count, duplicate_count, flush_count, drain_count,
                   drain_concurrent, earg, save_stall, terminated, ekind,
                   ework, nenqueue, nbarrier, handled, accepted, completed,
                   returned, snapshot, stall_set>>

\* write_loop(): _busy_writers++; (_writer->*_do_write)(elt), up to the
\* handler's call back into the engine, if it makes one
WHandler(w, h) ==
    /\ w \in Workers
    /\ epc[w] = "w_call"
    /\ busy_writers' = busy_writers + 1
    /\ Invoke(elt[w])
    /\ CASE h = "plain" ->
              /\ epc' = [epc EXCEPT ![w] = "w_end"]
              /\ UNCHANGED <<earg, terminated, nenqueue, nbarrier>>
         [] h = "enqueue" ->
              /\ nenqueue < MaxEnqueue
              /\ \E v \in EnqueueValues(ekind, nenqueue) : EnqueueBegin(w, v)
              /\ UNCHANGED nbarrier
         [] h = "barrier" ->
              /\ nbarrier < MaxBarrier
              /\ nbarrier' = nbarrier + 1
              /\ epc' = [epc EXCEPT ![w] = "b_lock"]
              /\ UNCHANGED <<earg, terminated, nenqueue>>
    /\ UNCHANGED <<store_queue, store_canceled, write_threads, thread_count,
                   enqueue_mutex, pending, high_watermark, low_watermark,
                   stopping_writers, stall_writers, in_drain, item_count,
                   duplicate_count, flush_count, drain_count,
                   drain_concurrent, elt, save_stall, ekind, ework,
                   accepted, completed, returned, snapshot, stall_set>>

\* write_loop(): the handler returns; _busy_writers--; _pending--
WEnd(w) ==
    /\ w \in Workers
    /\ epc[w] = "w_end"
    /\ completed' = completed \cup {elt[w]}
    /\ busy_writers' = busy_writers - 1
    /\ pending' = pending - 1
    /\ elt' = [elt EXCEPT ![w] = 0]
    /\ epc' = [epc EXCEPT ![w] = LoopTop]
    /\ UNCHANGED <<store_queue, store_canceled, write_threads, thread_count,
                   enqueue_mutex, high_watermark, low_watermark,
                   stopping_writers, stall_writers, in_drain, item_count,
                   duplicate_count, flush_count, drain_count,
                   drain_concurrent, earg, save_stall, terminated, ekind,
                   ework, nenqueue, nbarrier, handled, accepted, returned,
                   snapshot, stall_set>>

\* async_buffer::stop_writer_threads(): _stall_writers = false
StallAtStopKept == stall_writers
StallAtStop == FALSE

\* ~async_caller() -> stop_writer_threads(): _stopping_writers = true
\* (async_buffer: _stall_writers = false before it)
SBegin ==
    /\ epc[Owner] = "idle"
    /\ \/ ework \in {"shutdown", "fifo"}
       \/ ework = "progress" /\ \A t \in EThreads : epc[t] \notin InBarrier
       \/ ework = "halt" /\ \A t \in Producers : epc[t] = "idle"
    /\ stall_writers' = StallAtStop
    /\ stopping_writers' = TRUE
    /\ epc' = [epc EXCEPT ![Owner] = "s_spin"]
    /\ UNCHANGED <<store_queue, store_canceled, write_threads, thread_count,
                   enqueue_mutex, busy_writers, pending, high_watermark,
                   low_watermark, in_drain, item_count, duplicate_count,
                   flush_count, drain_count, drain_concurrent, earg, elt,
                   save_stall, terminated, ekind, ework, nenqueue, nbarrier,
                   handled, accepted, completed, returned, snapshot,
                   stall_set>>

\* stop_writer_threads(): while (0 < _pending) sleep
SSpin ==
    /\ epc[Owner] = "s_spin"
    /\ pending = 0
    /\ epc' = [epc EXCEPT ![Owner] = "s_cancel"]
    /\ UNCHANGED <<store_queue, store_canceled, write_threads, thread_count,
                   enqueue_mutex, busy_writers, pending, high_watermark,
                   low_watermark, stopping_writers, stall_writers, in_drain,
                   item_count, duplicate_count, flush_count, drain_count,
                   drain_concurrent, earg, elt, save_stall, terminated,
                   ekind, ework, nenqueue, nbarrier, handled, accepted,
                   completed, returned, snapshot, stall_set>>

\* stop_writer_threads(): _store_queue.cancel()
SCancel ==
    /\ epc[Owner] = "s_cancel"
    /\ store_canceled' = TRUE
    /\ epc' = [epc EXCEPT ![Owner] = "s_join"]
    /\ UNCHANGED <<store_queue, write_threads, thread_count, enqueue_mutex,
                   busy_writers, pending, high_watermark, low_watermark,
                   stopping_writers, stall_writers, in_drain, item_count,
                   duplicate_count, flush_count, drain_count,
                   drain_concurrent, earg, elt, save_stall, terminated,
                   ekind, ework, nenqueue, nbarrier, handled, accepted,
                   completed, returned, snapshot, stall_set>>

\* stop_writer_threads(): while (0 < _write_threads.size())
\*   { back().join(); pop_back(); _thread_count--; }
SJoin ==
    /\ epc[Owner] = "s_join"
    /\ IF Len(write_threads) = 0
       THEN /\ epc' = [epc EXCEPT ![Owner] = "s_reset"]
            /\ UNCHANGED <<write_threads, thread_count>>
       ELSE /\ epc[Last(write_threads)] = "exited"
            /\ write_threads' = SubSeq(write_threads, 1, Len(write_threads) - 1)
            /\ thread_count' = thread_count - 1
            /\ UNCHANGED epc
    /\ UNCHANGED <<store_queue, store_canceled, enqueue_mutex, busy_writers,
                   pending, high_watermark, low_watermark, stopping_writers,
                   stall_writers, in_drain, item_count, duplicate_count,
                   flush_count, drain_count, drain_concurrent, earg, elt,
                   save_stall, terminated, ekind, ework, nenqueue, nbarrier,
                   handled, accepted, completed, returned, snapshot,
                   stall_set>>

\* stop_writer_threads(): _store_queue.cancel_reset()
SReset ==
    /\ epc[Owner] = "s_reset"
    /\ store_canceled' = FALSE
    /\ epc' = [epc EXCEPT ![Owner] = "s_drain"]
    /\ UNCHANGED <<store_queue, write_threads, thread_count, enqueue_mutex,
                   busy_writers, pending, high_watermark, low_watermark,
                   stopping_writers, stall_writers, in_drain, item_count,
                   duplicate_count, flush_count, drain_count,
                   drain_concurrent, earg, elt, save_stall, terminated,
                   ekind, ework, nenqueue, nbarrier, handled, accepted,
                   completed, returned, snapshot, stall_set>>

\* stop_writer_threads(): while (not _store_queue.is_empty())
\*   { Element elt = _store_queue.value_pop(); handler(elt); }
SDrain ==
    /\ epc[Owner] = "s_drain"
    /\ IF Len(store_queue) = 0
       THEN /\ epc' = [epc EXCEPT ![Owner] = "s_clear"]
            /\ UNCHANGED <<store_queue, handled, completed>>
       ELSE LET i == NextIndex(ContainerOf(ekind), store_queue, FALSE)
            IN  /\ store_queue' = RemoveAt(store_queue, i)
                /\ Invoke(store_queue[i])
                /\ completed' = completed \cup {store_queue[i]}
                /\ UNCHANGED epc
    /\ UNCHANGED <<store_canceled, write_threads, thread_count,
                   enqueue_mutex, busy_writers, pending, high_watermark,
                   low_watermark, stopping_writers, stall_writers, in_drain,
                   item_count, duplicate_count, flush_count, drain_count,
                   drain_concurrent, earg, elt, save_stall, terminated,
                   ekind, ework, nenqueue, nbarrier, accepted, returned,
                   snapshot, stall_set>>

\* stop_writer_threads(): _stopping_writers = false, and it returns
SClear ==
    /\ epc[Owner] = "s_clear"
    /\ stopping_writers' = FALSE
    /\ epc' = [epc EXCEPT ![Owner] = "stopped"]
    /\ UNCHANGED <<store_queue, store_canceled, write_threads, thread_count,
                   enqueue_mutex, busy_writers, pending, high_watermark,
                   low_watermark, stall_writers, in_drain, item_count,
                   duplicate_count, flush_count, drain_count,
                   drain_concurrent, earg, elt, save_stall, terminated,
                   ekind, ework, nenqueue, nbarrier, handled, accepted,
                   completed, returned, snapshot, stall_set>>

\* the calls a thread may begin from outside the engine
ECall(t) ==
    \/ EEnqueue(t)
    \/ EBarrier(t)
    \/ \E m \in WatermarksOf(ework) : ESetWatermarks(t, m[1], m[2])

\* the steps of enqueue() and barrier() past their first
ECallContinue(t) ==
    \/ ECount(t)
    \/ ELock(t)
    \/ EPush(t)
    \/ ESize(t)
    \/ EStall(t)
    \/ BLock(t)
    \/ BFlush(t)
    \/ BDrain(t)

\* the steps of a writer thread
EWriter(w) ==
    \/ WPop(w)
    \/ \E h \in HandlerChoices(ework) : WHandler(w, h)
    \/ WEnd(w)

\* the steps of the destructor past its first
EStop ==
    \/ SSpin
    \/ SCancel
    \/ SJoin
    \/ SReset
    \/ SDrain
    \/ SClear

ENext ==
    /\ ~terminated
    /\ UNCHANGED cvars
    /\ \/ \E t \in EThreads : ECall(t) \/ ECallContinue(t) \/ EWriter(t)
       \/ SBegin
       \/ EStop

EngineSpec == EInit /\ [][ENext]_vars

\* The "reentrant" scenario on its own, with the scheduling the progress
\* of a call rests on: a thread that is inside enqueue(), barrier() or
\* write_loop() and can take its next step is scheduled again; nothing
\* forces a producer to begin a call.  std::mutex promises no fairness
\* among the threads that wait for it.
ReentrantInit == EInit /\ ework = "reentrant"

EProgress(t) ==
    /\ UNCHANGED cvars
    /\ ECallContinue(t) \/ EWriter(t)

ReentrantNext ==
    /\ ~terminated
    /\ \E t \in EThreads :
          \/ UNCHANGED cvars /\ ECall(t)
          \/ EProgress(t)

ReentrantFairSpec ==
    ReentrantInit /\ [][ReentrantNext]_vars
       /\ \A t \in EThreads : WF_vars(EProgress(t))

\* async_buffer: the steps only this class has
BufCall(t) == \E st \in BOOLEAN : BufStall(t, st)

BufContinue(t) == BClear(t) \/ WStall(t)

BufferInit == EngineInit("buffer")

BufferNext ==
    /\ ~terminated
    /\ UNCHANGED cvars
    /\ \/ \E t \in EThreads :
             \/ ECall(t) \/ BufCall(t)
             \/ ECallContinue(t) \/ BufContinue(t)
             \/ EWriter(t)
       \/ SBegin
       \/ EStop

BufferSpec == BufferInit /\ [][BufferNext]_vars

\* The scenario "progress": handlers that return without a call into the
\* engine, producers that call enqueue() and barrier(), and an owner that
\* calls stop_writer_threads() while no barrier() is in progress and leaves
\* the engine in use afterwards.  Every thread that can take its next step
\* is scheduled again.
ProgressInit ==
    /\ NoContainer
    /\ ekind = "caller"
    /\ ework = "progress"
    /\ \E n \in 0..Len(WorkerOrder) : EConstruct(n)
    /\ nenqueue = 0
    /\ nbarrier = 0
    /\ handled = [e \in Elements |-> 0]
    /\ accepted = [e \in Elements |-> 0]
    /\ completed = {}
    /\ returned = {}
    /\ snapshot = [t \in Producers |-> {}]
    /\ stall_set = FALSE

PBegin(t) == UNCHANGED cvars /\ (EEnqueue(t) \/ EBarrier(t))

PContinue(t) ==
    /\ UNCHANGED cvars
    /\ \/ ECount(t)
       \/ ELock(t)
       \/ EPush(t)
       \/ ESize(t)
       \/ BLock(t)
       \/ BDrain(t)
       \/ WPop(t)
       \/ WHandler(t, "plain")
       \/ WEnd(t)

PStop == UNCHANGED cvars /\ (SBegin \/ EStop)

ProgressNext ==
    \/ \E t \in EThreads : PBegin(t) \/ PContinue(t)
    \/ PStop

ProgressFairSpec ==
    ProgressInit /\ [][ProgressNext]_vars
       /\ \A t \in EThreads : WF_vars(PContinue(t))
       /\ WF_vars(PStop)

\* The scenario "restore" of async_buffer: producer p1 calls insert(),
\* stall() and flush(), producer p2 calls barrier(); the handlers return
\* without a call into the engine and the engine is not stopped.
RestoreInit ==
    /\ NoContainer
    /\ ekind = "buffer"
    /\ ework = "restore"
    /\ \E n \in 0..Len(WorkerOrder) : EConstruct(n)
    /\ nenqueue = 0
    /\ nbarrier = 0
    /\ handled = [e \in Elements |-> 0]
    /\ accepted = [e \in Elements |-> 0]
    /\ completed = {}
    /\ returned = {}
    /\ snapshot = [t \in Producers |-> {}]
    /\ stall_set = FALSE

RestoreCall(t) ==
    \/ EEnqueue(t)
    \/ EBarrier(t)
    \/ FBegin(t)
    \/ \E st \in BOOLEAN : BufStall(t, st)

RestoreContinue(t) ==
    \/ ECount(t)
    \/ ELock(t)
    \/ EPush(t)
    \/ ESize(t)
    \/ BLock(t)
    \/ BClear(t)
    \/ FClear(t)
    \/ BFlush(t)
    \/ BDrain(t)
    \/ WStall(t)
    \/ WPop(t)
    \/ WHandler(t, "plain")
    \/ WEnd(t)

RestoreNext ==
    /\ UNCHANGED cvars
    /\ \E t \in EThreads : RestoreCall(t) \/ RestoreContinue(t)

RestoreSpec == RestoreInit /\ [][RestoreNext]_vars

\* The scenario "fifo": an async_caller with one writer thread, one
\* producer that calls enqueue(), handlers that return without a call into
\* the engine, and the owner that destroys the engine.
FifoInit ==
    /\ NoContainer
    /\ ekind = "caller"
    /\ ework = "fifo"
    /\ EConstruct(1)
    /\ nenqueue = 0
    /\ nbarrier = 0
    /\ handled = [e \in Elements |-> 0]
    /\ accepted = [e \in Elements |-> 0]
    /\ completed = {}
    /\ returned = {}
    /\ snapshot = [t \in Producers |-> {}]
    /\ stall_set = FALSE

FifoStep(t) ==
    \/ EEnqueue(t)
    \/ ECount(t)
    \/ ELock(t)
    \/ EPush(t)
    \/ ESize(t)
    \/ WPop(t)
    \/ WHandler(t, "plain")
    \/ WEnd(t)

FifoNext ==
    /\ UNCHANGED cvars
    /\ \/ \E t \in EThreads : FifoStep(t)
       \/ SBegin
       \/ EStop

FifoSpec == FifoInit /\ [][FifoNext]_vars

\* The scenario "halt" of both engines: producer p1 calls enqueue() /
\* insert() and, on async_buffer, stall(); the handlers return without a
\* call into the engine; the owner calls stop_writer_threads() while no
\* call of p1 is in progress, and p1 makes no call from then on.  Every
\* thread that can take its next step is scheduled again.
HaltInit ==
    /\ NoContainer
    /\ ekind \in {"caller", "buffer"}
    /\ ework = "halt"
    /\ \E n \in 0..Len(WorkerOrder) : EConstruct(n)
    /\ nenqueue = 0
    /\ nbarrier = 0
    /\ handled = [e \in Elements |-> 0]
    /\ accepted = [e \in Elements |-> 0]
    /\ completed = {}
    /\ returned = {}
    /\ snapshot = [t \in Producers |-> {}]
    /\ stall_set = FALSE

HaltCall(t) ==
    /\ UNCHANGED cvars
    /\ \/ EEnqueue(t)
       \/ ekind = "buffer" /\ \E st \in BOOLEAN : BufStall(t, st)

HaltContinue(t) ==
    /\ UNCHANGED cvars
    /\ \/ ECount(t)
       \/ ELock(t)
       \/ EPush(t)
       \/ ESize(t)
       \/ WStall(t)
       \/ WPop(t)
       \/ WHandler(t, "plain")
       \/ WEnd(t)

HaltNext ==
    \/ \E t \in EThreads : HaltCall(t) \/ HaltContinue(t)
    \/ PStop

HaltFairSpec ==
    HaltInit /\ [][HaltNext]_vars
       /\ \A t \in EThreads : WF_vars(HaltContinue(t))
       /\ WF_vars(PStop)

\* Both classes: an async_caller or an async_buffer is constructed
EnginesInit == EInit \/ BufferInit

EnginesSpec == EnginesInit /\ [][BufferNext]_vars

(***************************************************************************)
(* Properties of the engine.                                               *)
(***************************************************************************)
\* stop_writer_threads() returns in this step
StopReturns == epc[Owner] = "s_clear" /\ epc'[Owner] = "stopped"

\* no thread is inside enqueue()
NoEnqueueInProgress ==
    \A t \in EThreads : epc[t] \notin {"e_count", "e_lock", "e_push", "e_size", "e_stall"}

\* no writer thread holds an element it took from the queue
NoHandlerRunning ==
    \A w \in Workers : epc[w] \in {"unstarted", "w_pop", "exited"}

\* C1: when stop() returns, every element whose enqueue() call has
\* returned normally has been passed to the handler exactly once, by a
\* worker or by the final drain of stop().
C1_NoLossAtStop ==
    [][StopReturns => \A e \in returned : handled[e] = 1]_vars

\* every enqueue() call made so far was accepted and has returned normally
AllAccepted == Cardinality(returned) = nenqueue

\* C2: pending counts the accepted elements whose handler invocation has
\* not completed, so whenever the container is empty, no handler is
\* running and no enqueue() is in progress, pending is 0.  It is stated
\* for the runs in which no enqueue() call was refused.
C2_PendingZeroWhenQuiet ==
    (AllAccepted /\ Len(store_queue) = 0 /\ NoHandlerRunning /\ NoEnqueueInProgress)
        => pending = 0

\* C3: when barrier() called from a thread that is not a worker returns,
\* that is when its drain() has seen pending == 0, every element whose
\* enqueue() had returned before the barrier() call began has had its
\* handler invocation completed: the queue holds none of them and no
\* handler is running on any of them.
C3_BarrierGuarantee ==
    [][\A t \in Producers :
          (epc[t] = "b_drain" /\ epc'[t] = "idle") =>
              /\ snapshot[t] \subseteq completed
              /\ snapshot[t] \cap Range(store_queue) = {}
              /\ \A w \in Workers : elt[w] \notin snapshot[t]]_vars

\* a barrier() called from outside has returned, the elements enqueued
\* before it were handled by worker threads, and more than one of them
C3_Witness ==
    \E t \in Producers :
        /\ epc[t] = "idle"
        /\ Cardinality(snapshot[t]) >= 2
        /\ thread_count > 0
        /\ flush_count > 0
        /\ enqueue_mutex = "none"
        /\ pending = 0

\* C4: a handler that calls barrier() on its own engine returns from the
\* call, whatever is queued behind its element and whatever the other
\* threads call.
C4_HandlerBarrierReturns ==
    \A w \in Workers : (epc[w] \in {"b_lock", "b_flush"}) ~> (epc[w] = "w_end")


(***************************************************************************)
(* Properties of the set.                                                  *)
(***************************************************************************)
\* an insert takes effect in this step (it was let in and ran do_insert)
InsertStep == pushed' # pushed

\* a blocking get() removes an element in this step
GetStep == popped' # popped /\ last'.op = "pop"

\* the set's elements are distinct and kept in ascending order
StrictlyAscending(s) == \A i \in 1..(Len(s) - 1) : s[i] < s[i + 1]

\* C11: insert(x) returns true exactly when x was not in the set at the
\* moment of the insert; the set never holds two equal elements, so its
\* size is the number of distinct elements; get() removes and returns the
\* least element.  Inserting 5, 3, 5, 1 returns true, true, false, true
\* and three get() calls on the result return 1, 3, 5 and leave it empty.
C11_SetDeduplicates ==
    [][kind = "set" =>
        /\ InsertStep =>
              /\ (last'.st = "true") = (Last(pushed') \notin Range(items))
              /\ Range(items') = Range(items) \cup {Last(pushed')}
        /\ StrictlyAscending(items')
        /\ Len(items') = Cardinality(Range(items'))
        /\ GetStep =>
              /\ Last(popped') = Min(Range(items))
              /\ Range(items') = Range(items) \ {Last(popped')}
        /\ (InsertStep /\ popped = <<>>) =>
              /\ pushed' = <<5>> => last'.st = "true"
              /\ pushed' = <<5, 3>> => last'.st = "true"
              /\ pushed' = <<5, 3, 5>> => last'.st = "false"
              /\ pushed' = <<5, 3, 5, 1>> => last'.st = "true"
        /\ (GetStep /\ pushed = <<5, 3, 5, 1>>) =>
              /\ popped = <<>> => popped' = <<1>>
              /\ popped = <<1>> => popped' = <<1, 3>>
              /\ popped = <<1, 3>> => (popped' = <<1, 3, 5>> /\ items' = <<>>)]_vars

\* 5, 3, 5, 1 were inserted, the duplicate 5 last but one, and three
\* get() calls have emptied the set
C11_Witness ==
    /\ kind = "set"
    /\ pushed = <<5, 3, 5, 1>>
    /\ popped = <<1, 3, 5>>
    /\ last = Done("pop", "true")
    /\ items = <<>>


(***************************************************************************)
(* Properties of the de-duplicating engine.                                *)
(***************************************************************************)
RECURSIVE SumTo(_, _)
SumTo(f, n) == IF n = 0 THEN 0 ELSE f[n] + SumTo(f, n - 1)

\* the number of copies of v the container holds
InStore(v) == Cardinality({i \in 1..Len(store_queue) : store_queue[i] = v})

\* the number of writer threads that took v and have not yet entered the
\* handler
Taken(v) == Cardinality({w \in Workers : epc[w] = "w_call" /\ elt[w] = v})

SyncCall(t) ==
    /\ epc[t] = "e_count"
    /\ thread_count = 0
    /\ epc'[t] # "e_count"

\* the engine was constructed with no writer threads
NoWriters == \A w \in Workers : epc[w] = "unstarted"

\* C13: with zero writer threads a call of enqueue() / insert() invokes the
\* handler once, for its own element, on the calling thread and before it
\* returns; the container, _pending and _busy_writers are left as they
\* were and _item_count grows by one.  In an engine constructed without
\* writer threads the handler has been invoked once per completed call,
\* and the container, _pending and _busy_writers stay empty and zero.
C13_SynchronousFallback ==
    /\ [][\A t \in EThreads : SyncCall(t) =>
             /\ handled' = [handled EXCEPT ![earg[t]] = @ + 1]
             /\ earg[t] \in returned'
             /\ epc'[t] = AfterCall(t)
             /\ store_queue' = store_queue
             /\ pending' = pending
             /\ busy_writers' = busy_writers
             /\ item_count' = item_count + 1]_vars
    /\ [](NoWriters =>
             /\ SumTo(handled, MaxEnqueue) = item_count
             /\ store_queue = <<>>
             /\ pending = 0
             /\ busy_writers = 0)

\* an async_buffer without writer threads was given the same value twice
\* and an async_caller two elements: the handler ran for each call
C13_Witness ==
    /\ NoWriters
    /\ item_count = 2
    /\ \/ ekind = "buffer" /\ handled[1] = 2
       \/ ekind = "caller" /\ handled[1] = 1 /\ handled[2] = 1
    /\ \A t \in Producers : epc[t] = "idle"

\* a call of enqueue() / insert() begins while _stopping_writers is set
RejectedCall ==
    /\ stopping_writers
    /\ nenqueue' = nenqueue + 1

\* C14: a call of enqueue() / insert() that begins while _stopping_writers
\* is set ends at once with the RuntimeException: the calling thread does
\* not go on into the call, nothing is added to the container, the
\* handler is not invoked, _pending, _item_count and _duplicate_count
\* are unchanged.  Only when it is thrown inside a handler, which was
\* invoked for the element the writer thread had taken, does the exception
\* leave a writer thread uncaught and end the process.
C14_RejectedWhileStopping ==
    [][RejectedCall =>
          /\ epc' = epc
          /\ earg' = earg
          /\ store_queue' = store_queue
          /\ \/ handled' = handled
             \/ \E w \in Workers :
                   /\ epc[w] = "w_call"
                   /\ terminated'
                   /\ handled' = [handled EXCEPT ![elt[w]] = @ + 1]
          /\ accepted' = accepted
          /\ pending' = pending
          /\ item_count' = item_count
          /\ duplicate_count' = duplicate_count
          /\ enqueue_mutex' = enqueue_mutex
          /\ terminated' => \E w \in Workers : epc[w] = "w_call"]_vars

\* stop_writer_threads() is waiting for _pending to reach 0 and a call of
\* enqueue() was made: it left no trace but the count of calls
C14_Witness ==
    /\ stopping_writers
    /\ epc[Owner] = "s_spin"
    /\ nenqueue = 1
    /\ item_count = 0
    /\ pending = 0
    /\ \A t \in Producers : epc[t] = "idle"
    /\ ~terminated

(***************************************************************************)
(* Properties of stop_writer_threads().                                    *)
(***************************************************************************)

\* no writer thread is in write_loop
WritersJoined ==
    /\ write_threads = <<>>
    /\ \A w \in Workers : epc[w] \in {"unstarted", "exited"}

\* C15: stop_writer_threads() cancels the container only after it has
\* seen _pending at 0, runs its last loop over the container only when
\* every writer thread has been joined, and when it returns _thread_count
\* is 0, the container is empty and not canceled and _stopping_writers is
\* false.
C15_StopSequence ==
    /\ [][epc'[Owner] = "s_cancel" /\ epc[Owner] # "s_cancel"
             => epc[Owner] = "s_spin" /\ pending = 0]_vars
    /\ [](epc[Owner] \in {"s_reset", "s_drain", "s_clear"} => WritersJoined)
    /\ [][StopReturns =>
             /\ thread_count' = 0
             /\ store_queue' = <<>>
             /\ ~store_canceled'
             /\ ~stopping_writers']_vars

(***************************************************************************)
(* Properties of barrier().                                                *)
(***************************************************************************)

\* a thread that is no writer thread is inside barrier() and holds
\* _enqueue_mutex: it is in drain(), before or in the loop on _pending
BarrierWaiting ==
    \E b \in Producers : epc[b] \in {"b_clear", "b_drain"} /\ ~IsWriter(b)

\* C16: while a thread that is no writer thread waits in barrier() for
\* _pending to reach 0, a call of enqueue() / insert() by a thread that is
\* no writer thread stays in front of _enqueue_mutex: no such thread is
\* between its _pending++ and its push, _pending is incremented and the
\* container grows only by the step of a writer thread.
C16_BarrierExcludesProducers ==
    [][BarrierWaiting =>
          /\ \A t \in Producers :
                /\ epc[t] # "e_push"
                /\ epc[t] = "e_lock" => epc'[t] = "e_lock"
          /\ pending' > pending =>
                \E w \in Workers : epc[w] = "e_lock" /\ epc'[w] = "e_push"
          /\ Len(store_queue') > Len(store_queue) =>
                \E w \in Workers : epc[w] = "e_push" /\ epc'[w] = "e_size"]_vars

\* one producer waits in drain() for an element that is being handled,
\* the other is inside enqueue() in front of the lock
C16_Witness ==
    /\ BarrierWaiting
    /\ enqueue_mutex \in Producers
    /\ pending > 0
    /\ \E t \in Producers : epc[t] = "e_lock" /\ enqueue_mutex # t

\* C17: _enqueue_mutex is never held by a writer thread, whether its
\* handler calls enqueue() / insert() or barrier().
C17_NoLockOnWriterThread == enqueue_mutex \notin Workers

\* the program points of enqueue() / insert() up to the test of the size
InEnqueue == {"e_count", "e_lock", "e_push", "e_size"}

\* C18: enqueue() called by a handler on its own engine does not wait for
\* _enqueue_mutex, which a thread blocked in barrier() holds: at every
\* point of the call up to its return, or to the wait for the low
\* watermark when the container has grown past the high one, the writer
\* thread can take its next step; and barrier() returns to a
\* thread that is no writer thread only when no handler is inside
\* enqueue() and every element that was pushed, by a handler as well, has
\* been handled.
C18_ReentrantEnqueue ==
    /\ [](\A w \in Workers :
             epc[w] \in InEnqueue => ENABLED ECallContinue(w))
    /\ [][\A b \in Producers :
             (epc[b] = "b_drain" /\ epc'[b] = "idle") =>
                 /\ \A w \in Workers : epc[w] \notin InEnqueue
                 /\ \A e \in Elements : accepted[e] > 0 => e \in completed]_vars

\* a producer waits in barrier() with the lock, and a handler has pushed
\* an element without it, the container being within the high watermark
C18_Witness ==
    /\ BarrierWaiting
    /\ enqueue_mutex \in Producers
    /\ \E w \in Workers :
          /\ epc[w] = "e_size"
          /\ earg[w] \in Range(store_queue)
    /\ Len(store_queue) <= high_watermark

(***************************************************************************)
(* Properties of the wait of enqueue() / insert() on the watermarks.       *)
(***************************************************************************)

\* thread t takes a step
Steps(t) == epc'[t] # epc[t]

\* C20: a call of enqueue() / insert() that, after its push, reads a size
\* of the container above _high_watermark does not return before it has
\* itself read a size that is not above _low_watermark; a call that reads
\* a size not above _high_watermark returns at once.
C20_InsertionSideStall ==
    [][\A t \in EThreads :
          /\ (epc[t] = "e_size" /\ Steps(t)) =>
                IF high_watermark < Len(store_queue)
                THEN epc'[t] = "e_stall" /\ earg[t] \notin returned' \ returned
                ELSE epc'[t] = AfterCall(t) /\ earg[t] \in returned'
          /\ (epc[t] = "e_stall" /\ Steps(t)) =>
                /\ Len(store_queue) <= low_watermark
                /\ epc'[t] = AfterCall(t)
                /\ earg[t] \in returned']_vars

\* a call has waited for the low watermark and returned, the other calls
\* have not waited
C20_Witness ==
    /\ drain_count = 1
    /\ drain_concurrent = 0
    /\ ~in_drain
    /\ nenqueue = MaxEnqueue
    /\ Cardinality(returned) >= 2
    /\ \A t \in EThreads : epc[t] \notin InEnqueue \cup {"e_stall"}

WatermarksSet == high # DEFAULT_HIGH_WATER_MARK

\* C21: once set_watermarks(H, L) with 1 <= L < H was called, before the
\* first insert and not again, the queue, the stack and the set never hold
\* more than H elements: an insert takes effect only at a moment when the
\* container holds fewer than H.
C21_SizeBound ==
    /\ [](WatermarksSet => 1 <= low /\ low < high /\ Len(items) <= high)
    /\ [][WatermarksSet /\ InsertStep => Len(items) < high]_vars

\* the container has been filled to H, emptied in part and filled to H
\* again, and an insert waits
C21_Witness ==
    /\ WatermarksSet
    /\ Len(items) = high
    /\ blocked > 0
    /\ Len(pushed) > high
    /\ \E t \in CThreads : cpc[t] = "push_wait"

\* the container was given a low watermark above the high one
Inverted == WatermarksSet /\ low > high

\* C22 as stated: with low > high an insert that has blocked at the high
\* watermark never takes effect, whatever is removed afterwards, unless
\* the container is canceled.
C22_InvertedNeverUnstalls ==
    [][\A t \in CThreads :
          (Inverted /\ cpc[t] \in PushWaiting)
             => (cpc'[t] \in PushWaiting \/ is_canceled)]_vars

\* C22: with low > high every removal made while an insert is blocked
\* leaves the size below the low watermark and so sends the watermark
\* notification, and a blocked insert that is woken, by it or spuriously,
\* takes effect as soon as it finds the size below the high watermark and
\* the container not canceled.
C22_InvertedUnstallsAtOnce ==
    [][Inverted =>
          /\ (popped' # popped /\ blocked > 0)
                => \E t \in CThreads :
                      cpc[t] = "idle" /\ cpc'[t] = "pop_notify"
          /\ \A t \in CThreads :
                (cpc[t] \in {"push_ready", "push_spur"} /\ cpc'[t] # cpc[t]
                   /\ Len(items) < high /\ ~is_canceled)
                => (cpc'[t] = "push_notify" /\ InsertStep)]_vars

\* with low > high, an insert that had blocked has taken effect after one
\* removal, the container being open
C22_Witness ==
    /\ Inverted
    /\ ~is_canceled
    /\ Len(popped) = 1
    /\ Len(pushed) = high + 1
    /\ Len(items) = high
    /\ \E t \in CThreads : cpc[t] = "push_notify"

(***************************************************************************)
(* Properties of the stall mode of async_buffer.                           *)
(***************************************************************************)

\* writer thread w takes an element out of the set in this step
Removes(w) == epc[w] = "w_pop" /\ epc'[w] = "w_call"

\* C23 as stated: while _stall_writers is set, no writer thread takes an
\* element out of the set at a moment when the set holds fewer than
\* _low_watermark elements.
C23_NoRemovalBelowLow ==
    [][\A w \in Workers :
          (Removes(w) /\ stall_writers) => Len(store_queue) >= low_watermark]_vars

\* no thread is inside flush() or barrier()
NoFlushInProgress ==
    \A t \in EThreads : epc[t] \notin InBarrier \cup {"f_clear"}

\* C24: whenever every call of flush() and barrier() on the async_buffer
\* has returned, _stall_writers has the value last given to stall(bool).
C24_StallRestored == NoFlushInProgress => stall_writers = stall_set

(***************************************************************************)
(* Properties of the Canceled exception.                                   *)
(***************************************************************************)

\* C25: no call of enqueue() ends with the Canceled exception of the
\* container: the step of the call that follows _pending++ puts the
\* element into the container and the call goes on to its test of the
\* size, also when stop_writer_threads() runs at the same time.
C25_NoCanceledFromEnqueue ==
    [][\A t \in EThreads :
          (epc[t] = "e_push" /\ epc'[t] # "e_push") =>
              /\ epc'[t] = "e_size"
              /\ earg[t] \in Range(store_queue')]_vars

\* C26: size(), is_empty() and try_get never end with the Canceled error,
\* in any state of any container variant, a canceled container included.
C26_ObserversNeverRaise ==
    last.op \in {"size", "is_empty", "try_get"} => last.st # "Canceled"

(***************************************************************************)
(* Properties of cancel() and cancel_reset().                              *)
(***************************************************************************)
\* C27: cancel() on a canceled container raises Canceled and leaves it
\* canceled; cancel() changes no contents; cancel_reset() clears the flag
\* and changes neither the contents nor their order, whatever the state;
\* and on a container that is not canceled, were it canceled and reset
\* before, no insert is refused.
C27_CancelAndReset ==
    [][/\ (last' # last /\ last'.op = "cancel")
             => /\ last'.st = (IF is_canceled THEN "Canceled" ELSE "true")
                /\ is_canceled'
                /\ items' = items
       /\ (last' # last /\ last'.op = "reset")
             => /\ last'.st = (IF is_canceled THEN "reopened" ELSE "true")
                /\ ~is_canceled'
       /\ is_canceled' # is_canceled
             => /\ items' = items
                /\ pushed' = pushed /\ popped' = popped
                /\ last'.op = (IF is_canceled THEN "reset" ELSE "cancel")
       /\ (~is_canceled /\ last' # last /\ last'.op = "push")
             => last'.st # "Canceled"]_vars

\* a canceled container that held elements has been reset, with the
\* elements still in it
C27_Witness ==
    last = Done("reset", "reopened") /\ ~is_canceled /\ Len(items) = MaxPushCancel

(***************************************************************************)
(* Properties of wait_and_take_all().                                      *)
(***************************************************************************)
\* thread t is inside wait_and_take_all
Taking(t) == cpc[t] \in {"take_wait", "take_ready"}

\* this step is the return of a wait_and_take_all call of thread t
TakeReturns(t) ==
    /\ cpc'[t] = "idle"
    /\ Taking(t) \/ (cpc[t] = "idle" /\ last' # last /\ last'.op = "take_all")

\* C28: wait_and_take_all waits exactly while the container is empty and
\* not canceled; the step by which it returns hands back the whole contents
\* of that instant in container order and leaves the container empty, so
\* that the removals of all threads together neither repeat nor lose an
\* element; on a canceled container it returns at once with what is left,
\* nothing included, and it never raises Canceled.
C28_TakeAll ==
    /\ [][\A t \in CThreads :
            /\ (cpc'[t] = "take_wait" /\ cpc[t] # "take_wait")
                  => (items = <<>> /\ ~is_canceled /\ cpc[t] \in {"idle", "take_ready"})
            /\ (cpc[t] = "take_ready" /\ cpc'[t] # "take_ready"
                   /\ (items # <<>> \/ is_canceled))
                  => TakeReturns(t)
            /\ TakeReturns(t)
                  => /\ items # <<>> \/ is_canceled
                     /\ last' = Got("take_all", "true", items)
                     /\ items' = <<>>
                     /\ popped' = popped \o RemovalOrder(kind, items)]_vars
    /\ [][pushed' = pushed
            => LET got == SubSeq(popped', Len(popped) + 1, Len(popped'))
               IN  /\ Len(popped') >= Len(popped)
                   /\ popped' = popped \o got
                   /\ Len(items') + Len(got) = Len(items)
                   /\ Range(items') \cup Range(got) = Range(items)]_vars
    /\ [](last.op = "take_all" => last.st = "true")

\* wait_and_take_all has handed back several elements at once, after
\* another removal had taken an element, and has left the container empty
C28_Witness ==
    /\ last.op = "take_all" /\ Len(last.got) >= 2
    /\ Len(popped) > Len(last.got)
    /\ items = <<>>
    /\ ~is_canceled

\* wait_and_take_all has returned from a canceled, empty container
C28_WitnessCanceled ==
    is_canceled /\ last = Got("take_all", "true", <<>>) /\ popped # <<>>

(***************************************************************************)
(* Properties of the wakeup of blocked removers.                           *)
(***************************************************************************)
\* C29: a thread blocked in the blocking remove does not stay blocked
\* while the container holds an element: eventually it returns, or the
\* container is empty again because other threads removed what was in it;
\* also with threads waiting in barrier().
C29_NoLostWakeup ==
    \A t \in CThreads :
        (cpc[t] \in PopWaiting /\ items # <<>>)
            ~> (cpc[t] \notin PopWaiting \/ items = <<>>)

(***************************************************************************)
(* Properties of the removal order of the set.                             *)
(***************************************************************************)
\* C30 as stated: no element removed from the set is smaller than an
\* element removed before it.
C30_SetRemovalMonotonic ==
    \A i, j \in 1..Len(popped) : i < j => popped[i] <= popped[j]

\* C30: every removal from the set (get, try_get without the reverse flag)
\* takes the least element that is in the set at that instant: the set is
\* kept in strictly increasing order, and what a removal leaves behind is
\* greater than what it took.  A removed element is therefore smaller than
\* an earlier one only if it was inserted after that one was removed.
C30_RemovesLeastPresent ==
    /\ [](\A i, j \in 1..Len(items) : i < j => items[i] < items[j])
    /\ [][popped' # popped
            => /\ items # <<>>
               /\ popped' = Append(popped, Min(Range(items)))
               /\ Range(items') = Range(items) \ {Min(Range(items))}
               /\ \A x \in Range(items') : x > Last(popped')]_vars

\* three removals with inserts in between: the second took an element
\* smaller than the first, the third a greater one, and the set is not empty
C30_Witness ==
    /\ kind = "set"
    /\ Len(popped) >= 3
    /\ popped[2] < popped[1]
    /\ popped[3] > popped[2]
    /\ items # <<>>

(***************************************************************************)
(* Properties of the order in which the handler is given the elements.     *)
(***************************************************************************)
\* the handler is entered for element e in this step
Invoked(e) == handled'[e] > handled[e]

\* C31: one writer thread, one producer (the n-th enqueue() call carries
\* the element n): whenever the handler is entered for an element, by the
\* writer thread or by the final drain of stop_writer_threads(), it has
\* been entered before for every element stored earlier and for no element
\* of a later call, and it is entered once per element.
C31_SingleWorkerFifo ==
    [][\A e \in Elements : Invoked(e) =>
          /\ handled[e] = 0
          /\ \A d \in Elements : d < e /\ accepted[d] > 0 => handled[d] > 0
          /\ \A d \in Elements : d > e => handled[d] = 0]_vars

\* stop_writer_threads() has returned; the first element went through the
\* writer thread, the second through the final drain (which leaves _pending
\* alone)
C31_Witness ==
    /\ ework = "fifo"
    /\ epc[Owner] = "stopped"
    /\ handled[1] = 1 /\ handled[2] = 1
    /\ pending = 1

(***************************************************************************)
(* Properties of enqueue() called by a handler.                            *)
(***************************************************************************)
\* C32: an enqueue() / insert() call made by a handler returns: a writer
\* thread that is inside the call, the wait for the low watermark
\* included, eventually is back in its handler.
C32_HandlerEnqueueReturns ==
    \A w \in Workers :
        (epc[w] \in InEnqueue \cup {"e_stall"}) ~> (epc[w] = "w_end")

(***************************************************************************)
(* Properties of the inserters blocked at the high watermark.              *)
(***************************************************************************)
\* C33: an inserter blocked at the high watermark does not stay blocked
\* once the container has been emptied (wait_and_take_all, clear) or
\* brought below the low watermark (erase): it completes its insert, or
\* the container has filled up to the high watermark again, or it was
\* canceled.
C33_BulkRemovalReleases ==
    \A t \in CThreads :
        (cpc[t] \in PushWaiting /\ Len(items) < low)
            ~> (cpc[t] \notin PushWaiting \/ Len(items) >= high \/ is_canceled)

(***************************************************************************)
(* Properties of the size of the engine's container.                       *)
(***************************************************************************)
\* the threads that have pushed and have not yet read a size that lets
\* their enqueue() / insert() return
Unreleased == {t \in EThreads : epc[t] \in {"e_size", "e_stall"}}

\* the threads that call enqueue() / insert(): the producers and the
\* writer threads
Enqueuers == Producers \cup Range(write_threads)

\* C34: the container never holds more than _high_watermark elements plus
\* one for each thread that has pushed and is held back until the size is
\* within the watermarks; these are threads that call enqueue(), so the
\* size is at most _high_watermark plus the number of such threads.
C34_BacklogBound ==
    /\ Len(store_queue) <= high_watermark + Cardinality(Unreleased)
    /\ ~stopping_writers => Unreleased \subseteq Enqueuers
    /\ ~stopping_writers =>
          Len(store_queue) <= high_watermark + Cardinality(Enqueuers)

\* the watermarks were set to (1, 0) and the container holds three
\* elements: two threads pushed on top of a container at the high watermark
C34_Witness ==
    /\ high_watermark = 1
    /\ Len(store_queue) = high_watermark + 2
    /\ Cardinality(Unreleased) = 2

(***************************************************************************)
(* Properties of the engine's counters.                                    *)
(***************************************************************************)
\* C35: _busy_writers is at most the number of writer threads, _pending is
\* at least the size of the container plus _busy_writers, and neither
\* counter goes below zero.
C35_CounterBounds ==
    /\ 0 <= busy_writers /\ busy_writers <= thread_count
    /\ 0 <= pending /\ pending >= Len(store_queue) + busy_writers

\* async_buffer: a duplicate insert was counted, every writer thread is
\* inside a handler, the set holds an element, and _pending is exactly the
\* size of the set plus _busy_writers
C35_Witness ==
    /\ ekind = "buffer"
    /\ duplicate_count >= 1
    /\ thread_count >= 1
    /\ busy_writers = thread_count
    /\ Len(store_queue) >= 1
    /\ pending = Len(store_queue) + busy_writers

(***************************************************************************)
(* Properties of the counter of blocked inserters.                         *)
(***************************************************************************)
\* the threads inside the watermark wait loop of push_impl / insert_impl
InWatermarkWait == {t \in CThreads : cpc[t] \in PushWaiting}

C37_DuplicateNeverBlocks ==
    [][\A t \in CThreads :
          (kind = "set" /\ cpc[t] = "idle" /\ cpc'[t] = "push_wait")
              => carg'[t] \notin Range(items)]_vars

\* C38: an inserter that is blocked at the high watermark when cancel()
\* sets the flag eventually leaves the wait; the step by which a blocked
\* inserter leaves the wait of a canceled container ends its call with
\* Canceled, adds nothing and takes one off the counter of blocked
\* inserters.  (The workload has no cancel_reset.)
C38_CancelReleasesInserters ==
    /\ \A t \in CThreads :
          (cpc[t] \in PushWaiting /\ is_canceled) ~> (cpc[t] = "idle")
    /\ [][\A t \in CThreads :
             (cpc[t] \in PushWaiting /\ cpc'[t] \notin PushWaiting /\ is_canceled)
                => /\ cpc'[t] = "idle"
                   /\ last' = Done("push", "Canceled")
                   /\ items' = items /\ pushed' = pushed
                   /\ blocked' = blocked - 1]_vars

\* an inserter that had been let in and had waited at the high watermark
\* of the full container has raised Canceled; the counter is back at 0
C38_Witness ==
    /\ work = "bulk"
    /\ is_canceled
    /\ last = Done("push", "Canceled")
    /\ \A t \in CThreads : cpc[t] = "idle"
    /\ npush = Len(pushed) + 1
    /\ Len(items) = high
    /\ blocked = 0

(***************************************************************************)
(* Properties of stop_writer_threads().                                    *)
(***************************************************************************)
\* C39: stop_writer_threads(), called on either engine while no other call
\* is in progress and with no call made during it, returns, whatever the
\* stall flag of async_buffer and however few elements are pending; and
\* when it returns every element the engine had stored has been handled
\* and no writer thread is left.
C39_StopTerminates ==
    /\ (epc[Owner] = "s_spin") ~> (epc[Owner] = "stopped")
    /\ [](epc[Owner] = "stopped" =>
             /\ write_threads = <<>>
             /\ store_queue = <<>>
             /\ \A e \in Elements : accepted[e] > 0 => e \in completed)

\* async_buffer with stall mode enabled: stop_writer_threads() has
\* returned, the elements given to the engine have been handled, fewer
\* than _low_watermark of them, and the writer threads, which had waited
\* in the stall, are gone
C39_Witness ==
    /\ ekind = "buffer"
    /\ stall_set
    /\ epc[Owner] = "stopped"
    /\ \E w \in Workers : epc[w] = "exited"
    /\ completed # {}
    /\ item_count < low_watermark

(***************************************************************************)
(* Properties of the set's try_get.                                        *)
(***************************************************************************)
\* the k least elements of s in ascending order, the k greatest in
\* descending order (s is sorted ascending)
LeastFirst(s, k) == SubSeq(s, 1, k)
GreatestFirst(s, k) == [j \in 1..k |-> s[Len(s) + 1 - j]]

\* C40: try_get(value, reverse) on a set that is not empty removes and
\* returns the least element, with reverse the greatest, and returns false
\* on the empty set; try_get(nelt, reverse) removes min(nelt, size)
\* elements in a single step, the least ones in ascending order, with
\* reverse the greatest ones in descending order, returns them in that
\* order and leaves the other elements in the set.
C40_RemovalEndSelection ==
    [][\A t \in CThreads : \A rev \in BOOLEAN :
          /\ CTryGet(t, rev) =>
                IF items = <<>>
                THEN last'.st = "false" /\ items' = items /\ popped' = popped
                ELSE LET x == IF rev THEN Max(Range(items)) ELSE Min(Range(items))
                     IN  /\ last'.st = "true"
                         /\ popped' = Append(popped, x)
                         /\ Range(items') = Range(items) \ {x}
                         /\ StrictlyAscending(items')
          /\ \A n \in 0..MaxBatch :
                CTryGetN(t, n, rev) =>
                   LET k == IF n < Len(items) THEN n ELSE Len(items)
                       got == IF rev THEN GreatestFirst(items, k)
                              ELSE LeastFirst(items, k)
                   IN  /\ last'.got = got
                       /\ popped' = popped \o got
                       /\ Len(items') = Len(items) - k
                       /\ Range(items') = Range(items) \ Range(got)
                       /\ StrictlyAscending(items')]_vars

\* try_get(2, true) on the set {1, 3, 5} has just returned <<5, 3>> and
\* left 1, after a try_get(value, true) that took the greatest of two
\* elements earlier
C40_Witness ==
    /\ last.op = "try_get_n"
    /\ last.got = <<5, 3>>
    /\ items = <<1>>
    /\ Len(popped) >= 3
    /\ \E i \in 1..Len(popped) - 2 : popped[i] > 1 /\ popped[i] # popped[i + 1]

=============================================================================
